---- MODULE Spec2Model ----
(***************************************************************************)
(* Content Pipeline Orchestrator (src/god-mode-ultra.ts) and the ULTRA     *)
(* SOTA orchestration layer (src/unnamed/part_000).                        *)
(*                                                                         *)
(* The specifications share the variables:                                 *)
(*   SpecCall    one call of callGodModeUltraAI, for every client registry *)
(*   Spec        one run of executeGodModeUltraPipeline                    *)
(*   SpecCallLive, SpecLive  the same two, with every step that is ready   *)
(*               and every call in flight eventually taken or settled      *)
(*   SpecCompete one call of fetchCompetitorContent                        *)
(*   SpecSota    one run of generateUltraSOTAContent                       *)
(*   SpecExec    one call of executeUltraSOTA, in generate and in refresh  *)
(*               mode                                                      *)
(*   SpecCurate  one call of fetchDynamicReferences and the rendering of   *)
(*               its map by generateReferencesHtml                         *)
(*   SpecFresh   the freshness years of a module load and their uses       *)
(*   SpecSlug    the slug of a keyword                                     *)
(*   SpecLinks   one call of injectInternalLinks                           *)
(*                                                                         *)
(* Text returned by a model or by the search API is represented by what    *)
(* the code can observe of it (whether it parses, which fields it has and  *)
(* of which JavaScript type), never by the characters; keywords and the    *)
(* texts of the link injector are sequences of characters.                 *)
(***************************************************************************)
EXTENDS Integers, Sequences, FiniteSets, TLC

VARIABLES
    ctx,        \* GenerationContext: apiClients, selectedModel, serperApiKey
    pc,         \* position of the running function
    call,       \* the callGodModeUltraAI activation in progress
    result,     \* GodModeUltraResult built by performGodModeUltraAnalysis
    work,       \* locals: section loop of fetchDynamicReferences, prose text
    requests,   \* every external request issued, in order, with its outcome
    stages,     \* the orchestrator stages entered, in order
    logs,       \* the dispatched ADD_SYSTEM_LOG events that matter, in order
    ret,        \* what executeGodModeUltraPipeline returned
    sota        \* the run of generateUltraSOTAContent

vars == <<ctx, pc, call, result, work, requests, stages, logs, ret, sota>>

----------------------------------------------------------------------------
(* Bounds of the model *)

\* longest gap list a model response carries
MaxGaps == 2

----------------------------------------------------------------------------
(* Provider Invocation Layer: callGodModeUltraAI *)

fallbackOrder == <<"gemini", "openai", "anthropic", "openrouter", "groq">>

Providers == {fallbackOrder[i] : i \in 1..Len(fallbackOrder)}

\* a selectedModel string that is no key of ApiClients
UnknownModel == "unknown"

\* ApiClients: absent registry, or the set of providers that have a client
ApiClientsAll ==
    {[present |-> FALSE, has |-> {}]} \cup
    {[present |-> TRUE, has |-> s] : s \in SUBSET Providers}

\* apiClients[selectedModel] is truthy
HasClientAlways(apiClients, selectedModel) == TRUE

HasClient(apiClients, selectedModel) == selectedModel \in apiClients.has

\* the walk "for (const fallback of fallbackOrder) if (apiClients[fallback])":
\* the index of the provider recursed into, 0 when the loop ends without one
FirstFallbackLast(apiClients, i) ==
    LET avail == {j \in i..Len(fallbackOrder) : HasClient(apiClients, fallbackOrder[j])}
    IN  IF avail = {} THEN 0 ELSE CHOOSE j \in avail : \A k \in avail : k <= j

FirstFallbackUnchecked(apiClients, i) == i

RECURSIVE FirstFallback(_, _)
FirstFallback(apiClients, i) ==
    IF i > Len(fallbackOrder) THEN 0
    ELSE IF HasClient(apiClients, fallbackOrder[i]) THEN i
    ELSE FirstFallback(apiClients, i + 1)

\* the switch (selectedModel) has a case for exactly the five providers
SwitchHasCase(selectedModel) == selectedModel \in Providers

IdleCall == [st |-> "idle", purpose |-> "none", sel |-> "none", depth |-> 0,
             error |-> "none", text |-> [k |-> "none"], sent |-> 0]

\* pc' after the catch block of the request (lines 1204-1207): rethrow
AfterRequestFailureRetry == "entered"

AfterRequestFailureNeverSettles == "hung"

AfterRequestFailure == "thrown"

\* the caller invokes callGodModeUltraAI(apiClients, selectedModel, ...)
EnterCall(purpose) ==
    [IdleCall EXCEPT !.st = "entered", !.purpose = purpose, !.sel = ctx.selectedModel]

\* a request as logged: the call site is (purpose, idx), idx the section
\* number of a section query
Request(kind, to, purpose, idx) ==
    [kind |-> kind, to |-> to, purpose |-> purpose, idx |-> idx,
     outcome |-> "pending", got |-> "none", body |-> "none"]

\* line 1132: if (!apiClients) throw
CallNoRegistry ==
    /\ call.st = "entered"
    /\ ~ctx.apiClients.present
    /\ call' = [call EXCEPT !.st = "thrown", !.error = "API clients not initialized"]
    /\ UNCHANGED <<ctx, pc, result, work, requests, stages, logs, ret, sota>>

\* lines 1135-1148: no client for selectedModel, recurse into the first fallback
CallFallback ==
    /\ call.st = "entered"
    /\ ctx.apiClients.present
    /\ ~HasClient(ctx.apiClients, call.sel)
    /\ FirstFallback(ctx.apiClients, 1) # 0
    /\ call' = [call EXCEPT !.sel = fallbackOrder[FirstFallback(ctx.apiClients, 1)],
                            !.depth = call.depth + 1]
    /\ UNCHANGED <<ctx, pc, result, work, requests, stages, logs, ret, sota>>

\* line 1150: the walk found no client
CallNoClients ==
    /\ call.st = "entered"
    /\ ctx.apiClients.present
    /\ ~HasClient(ctx.apiClients, call.sel)
    /\ FirstFallback(ctx.apiClients, 1) = 0
    /\ call' = [call EXCEPT !.st = "thrown", !.error = "No API clients available"]
    /\ UNCHANGED <<ctx, pc, result, work, requests, stages, logs, ret, sota>>

\* lines 1153-1203: the one awaited request of the matching switch case
CallRequest ==
    /\ call.st = "entered"
    /\ ctx.apiClients.present
    /\ HasClient(ctx.apiClients, call.sel)
    /\ SwitchHasCase(call.sel)
    /\ call' = [call EXCEPT !.st = "awaiting", !.sent = call.sent + 1]
    /\ requests' = Append(requests, Request("provider", call.sel, call.purpose, 0))
    /\ UNCHANGED <<ctx, pc, result, work, stages, logs, ret, sota>>

\* the outcome of the request in flight: "failed", or "ok" with the kind of
\* text received
SetLastOutcome(reqs, o, got) ==
    [reqs EXCEPT ![Len(reqs)].outcome = o, ![Len(reqs)].got = got]

\* lines 1204-1207: the request rejects; the error is logged and rethrown
CallRequestFails ==
    /\ call.st = "awaiting"
    /\ call' = [call EXCEPT !.st = AfterRequestFailure, !.error = "ProviderCallError"]
    /\ requests' = SetLastOutcome(requests, "failed", "none")
    /\ UNCHANGED <<ctx, pc, result, work, stages, logs, ret, sota>>

----------------------------------------------------------------------------
(* JavaScript values left in the analysis result by JSON.parse *)

Gaps == {"g1", "g2"}

\* a null entry of the uncoveredKeywords array
NullGap == "null"

RECURSIVE SeqsUpTo(_, _)
SeqsUpTo(S, n) ==
    IF n = 0 THEN {<<>>}
    ELSE LET shorter == SeqsUpTo(S, n - 1)
         IN  shorter \cup {Append(q, x) : q \in {r \in shorter : Len(r) = n - 1}, x \in S}

Undefined == [t |-> "undefined", items |-> <<>>]
Arr(items) == [t |-> "array", items |-> items]
\* a truthy value that is no array (a string, a number, an object)
NotArray == [t |-> "other", items |-> <<>>]

\* what the model can answer to the gap prompt:
\*   garbage  JSON.parse throws
\*   null     parses to null, so gapData.uncoveredKeywords throws
\*   object   parses to a value whose uncoveredKeywords is uk (Undefined when
\*            the value has no such field or the field is falsy)
GapTexts ==
    {[k |-> "garbage", uk |-> Undefined], [k |-> "null", uk |-> Undefined]} \cup
    {[k |-> "object", uk |-> v] :
        v \in {Undefined, NotArray, Arr(<<NullGap>>)} \cup
              {Arr(q) : q \in SeqsUpTo(Gaps, MaxGaps)}}

\* the topical prompt: garbage, a scalar, an object with the two keyword
\* lists, or an object whose semanticVariations is truthy and not iterable
TopicalTexts == {[k |-> x] : x \in {"garbage", "scalar", "object", "badfields"}}

\* the E-E-A-T and AI-visibility prompts: garbage or an object
SignalTexts == {[k |-> x] : x \in {"garbage", "object"}}

\* the prose: does it carry the marker 'sota-references-section', a
\* Conclusion/Final Thoughts h2, any closing </p>, a banned phrase
WriterTexts ==
    {[k |-> "html", marker |-> FALSE, conclusion |-> FALSE, p |-> TRUE, banned |-> FALSE],
     [k |-> "html", marker |-> FALSE, conclusion |-> TRUE, p |-> FALSE, banned |-> TRUE]}

ResponsesFor(purpose) ==
    CASE purpose = "gap" -> GapTexts
      [] purpose = "topical" -> TopicalTexts
      [] purpose \in {"eeat", "ai"} -> SignalTexts
      [] purpose = "writer" -> WriterTexts
      [] OTHER -> {[k |-> "text"]}

\* lines 1153-1209: the request resolves and its text is returned
CallReturns ==
    /\ call.st = "awaiting"
    /\ \E t \in ResponsesFor(call.purpose) :
          /\ call' = [call EXCEPT !.st = "returned", !.text = t]
          /\ requests' = [SetLastOutcome(requests, "ok", t.k) EXCEPT ![Len(requests)].body = t]
    /\ UNCHANGED <<ctx, pc, result, work, stages, logs, ret, sota>>

----------------------------------------------------------------------------
(* The analysis result, lines 1221-1229 *)

EmptyResult ==
    [serpGaps |-> Arr(<<>>), topicalCluster |-> "null", eeatSignals |-> "null",
     aiVisibility |-> "null", dynamicReferences |-> <<>>, paaQuestions |-> <<>>]

NoContent == [marker |-> FALSE, conclusion |-> FALSE, p |-> FALSE, banned |-> FALSE,
              blocks |-> 0]

\* topics: the sectionTopics argument; sections: the topics the loop runs over;
\* competitors: the non-empty competitor blocks; delays: the delays run so far
\* contentOutline: the headings handed to the E-E-A-T and AI prompts
NoWork == [topics |-> <<>>, sections |-> <<>>, i |-> 0, map |-> <<>>, delays |-> 0,
           competitors |-> 0, contentOutline |-> <<>>, content |-> NoContent]

NoReturn == [kind |-> "none", content |-> NoContent, references |-> <<>>,
             outline |-> <<>>, keyTakeaways |-> <<>>]

\* a content body with the number of passes of the link injector over it,
\* of references blocks appended and of image re-injections
NoBody == [body |-> "none", links |-> 0, refs |-> 0, images |-> 0]

NoReport == [on |-> NoBody, score |-> 0]

NoSota == [pc |-> "off", entry |-> "generate", useGodMode |-> FALSE, hasProgress |-> FALSE,
           events |-> <<>>, ops |-> <<>>, raw |-> "none", fixed |-> "none", base |-> "none",
           summaryOf |-> "none", linkedOn |-> NoBody,
           content |-> NoBody, contentWithImages |-> NoBody,
           report |-> NoReport,
           result |-> [content |-> NoBody, qualityReport |-> NoReport],
           outcome |-> "none"]

----------------------------------------------------------------------------
(* Reference Curator: GodModeUltraEngine.fetchDynamicReferences *)

\* the hostname of wpUrl after .replace('www.', '')
OwnHost == "mysite.com"

\* hostnames of search results (after .replace('www.', '')), each with the
\* lists one of whose entries it includes as a substring ("own": the
\* hostname includes OwnHost)
HostMatches ==
    [h \in {"cdc.gov", "pubmed.ncbi.nlm.nih.gov", "nature.com", "forbes.com",
            "wired.com", "example.com", "reddit.com", "academia.edu", "mysite.com",
            "notmysite.com"} |->
        CASE h = "cdc.gov" -> {"government"}
          [] h = "pubmed.ncbi.nlm.nih.gov" -> {"government", "academic"}
          [] h = "nature.com" -> {"academic"}
          [] h = "forbes.com" -> {"industry"}
          [] h = "wired.com" -> {"expert"}
          [] h = "reddit.com" -> {"blocked"}
          [] h = "academia.edu" -> {"blocked", "government"}
          [] h = "mysite.com" -> {"own"}
          [] h = "notmysite.com" -> {"own"}
          [] OTHER -> {}]

Hosts == DOMAIN HostMatches

\* lines 1009-1024: category and authority score by the first matching list
ClassifyAcademicFirst(host) ==
    IF "academic" \in HostMatches[host] THEN [category |-> "Academic", authorityScore |-> 90]
    ELSE IF "government" \in HostMatches[host] THEN [category |-> "Government", authorityScore |-> 95]
    ELSE IF "industry" \in HostMatches[host] THEN [category |-> "Industry", authorityScore |-> 85]
    ELSE IF "expert" \in HostMatches[host] THEN [category |-> "News", authorityScore |-> 75]
    ELSE [category |-> "Expert", authorityScore |-> 50]

Classify(host) ==
    IF "government" \in HostMatches[host] THEN [category |-> "Government", authorityScore |-> 95]
    ELSE IF "academic" \in HostMatches[host] THEN [category |-> "Academic", authorityScore |-> 90]
    ELSE IF "industry" \in HostMatches[host] THEN [category |-> "Industry", authorityScore |-> 85]
    ELSE IF "expert" \in HostMatches[host] THEN [category |-> "News", authorityScore |-> 75]
    ELSE [category |-> "Expert", authorityScore |-> 50]

\* lines 1003-1007 and the catch of line 1036: is the raw result dropped
Dropped(raw, wpUrl) ==
    \/ raw.host \notin Hosts                       \* new URL(result.link) throws
    \/ "blocked" \in HostMatches[raw.host]
    \/ wpUrl /\ "own" \in HostMatches[raw.host]

\* lines 1026-1035
MakeReference(raw) ==
    [url |-> raw.link, domain |-> raw.host,
     authorityScore |-> Classify(raw.host).authorityScore,
     category |-> Classify(raw.host).category]

RECURSIVE SectionRefs(_, _)
SectionRefs(results, wpUrl) ==
    IF results = <<>> THEN <<>>
    ELSE IF Dropped(Head(results), wpUrl) THEN SectionRefs(Tail(results), wpUrl)
    ELSE <<MakeReference(Head(results))>> \o SectionRefs(Tail(results), wpUrl)

\* Array.prototype.slice(0, n)
Slice(s, n) == SubSeq(s, 1, IF Len(s) < n THEN Len(s) ELSE n)

\* r goes behind every entry whose score is not lower: the order of equal
\* scores is kept
RECURSIVE InsertByAuthority(_, _)
InsertByAuthorityBeforeTies(sorted, r) ==
    IF sorted = <<>> THEN <<r>>
    ELSE IF Head(sorted).authorityScore > r.authorityScore
         THEN <<Head(sorted)>> \o InsertByAuthority(Tail(sorted), r)
         ELSE <<r>> \o sorted

InsertByAuthority(sorted, r) ==
    IF sorted = <<>> THEN <<r>>
    ELSE IF Head(sorted).authorityScore >= r.authorityScore
         THEN <<Head(sorted)>> \o InsertByAuthority(Tail(sorted), r)
         ELSE <<r>> \o sorted

\* line 1039: sectionRefs.sort((a, b) => b.authorityScore - a.authorityScore)
RECURSIVE SortByAuthority(_)
SortByAuthority(refs) ==
    IF refs = <<>> THEN <<>>
    ELSE InsertByAuthority(SortByAuthority(SubSeq(refs, 1, Len(refs) - 1)), refs[Len(refs)])

\* lines 998-1040: the list stored for one section
CurateSection(organic, wpUrl) ==
    Slice(SortByAuthority(SectionRefs(Slice(organic, 8), wpUrl)), 3)

\* Map.prototype.set: an existing key keeps its place and gets the new value
MapSet(map, key, val) ==
    IF \E i \in 1..Len(map) : map[i].section = key
    THEN [i \in 1..Len(map) |-> IF map[i].section = key
                                THEN [section |-> key, refs |-> val] ELSE map[i]]
    ELSE Append(map, [section |-> key, refs |-> val])

\* referenceMap.forEach(refs => allRefs.push(...refs)) and values().flat()
RECURSIVE Flatten(_)
Flatten(map) ==
    IF map = <<>> THEN <<>> ELSE Head(map).refs \o Flatten(Tail(map))

\* lines 1055-1057: keep a reference when no earlier one has its url
UniqueRefsCapFirst(allRefs) ==
    LET first == Slice(allRefs, 10)
        keep == {i \in 1..Len(first) : \A j \in 1..(i - 1) : first[j].url # first[i].url}
        RECURSIVE pick(_)
        pick(i) == IF i > Len(first) THEN <<>>
                   ELSE IF i \in keep THEN <<first[i]>> \o pick(i + 1) ELSE pick(i + 1)
    IN  pick(1)

UniqueRefs(allRefs) ==
    LET keep == {i \in 1..Len(allRefs) : \A j \in 1..(i - 1) : allRefs[j].url # allRefs[i].url}
        RECURSIVE pick(_)
        pick(i) == IF i > Len(allRefs) THEN <<>>
                   ELSE IF i \in keep THEN <<allRefs[i]>> \o pick(i + 1) ELSE pick(i + 1)
    IN  Slice(pick(1), 10)

\* the organic results a section query can return in a pipeline run
PipelineOrganic ==
    {<<[link |-> "u1", host |-> "example.com"], [link |-> "u2", host |-> "cdc.gov"],
       [link |-> "u3", host |-> "reddit.com"]>>}

----------------------------------------------------------------------------
(* performGodModeUltraAnalysis *)

\* the people-also-ask questions a competitor search can return
PaaLists == {<<"q1", "q2">>}

\* the organic results the competitor search returns
CompetitorOrganic ==
    <<[link |-> "k1", host |-> "example.com"], [link |-> "k2", host |-> "forbes.com"],
      [link |-> "k3", host |-> "wired.com"], [link |-> "k4", host |-> "nature.com"]>>

\* lines 947-960: organic.slice(0, 3), one block for each result
CompetitorBlocks(organic) == Len(Slice(organic, 3))

\* v.slice(0, n).map(g => g.keyword) throws a TypeError: v is no array, or
\* an entry is null
MapThrows(v) ==
    \/ v.t # "array"
    \/ \E i \in 1..Len(v.items) : v.items[i] = NullGap

\* does an error thrown by JSON.parse or by the statements after it leave
\* the inner try: never, each parse has its own catch (lines 1261, 1285,
\* 1311, 1333)
ParseErrorEscapesUncaught(text) == text.k \in {"garbage", "null"}

ParseErrorEscapes(text) == FALSE

\* a gap stands for the object the model returned and for each field read
\* of it (keyword, suggestedHeading, contentAngle): a list derived by
\* .map(g => g.field) is written as the list of the gaps themselves
GapRank(g) == IF g = "g1" THEN 1 ELSE 2

RECURSIVE InsertByRank(_, _)
InsertByRank(sorted, g) ==
    IF sorted = <<>> THEN <<g>>
    ELSE IF GapRank(Head(sorted)) <= GapRank(g)
         THEN <<Head(sorted)>> \o InsertByRank(Tail(sorted), g)
         ELSE <<g>> \o sorted

RECURSIVE SortGaps(_)
SortGaps(items) ==
    IF items = <<>> THEN <<>>
    ELSE InsertByRank(SortGaps(SubSeq(items, 1, Len(items) - 1)), items[Len(items)])

\* lines 1256-1263: JSON.parse(gapResponse) inside its own try
ParseGapSorted(res, text) ==
    IF text.k = "object"
    THEN [res EXCEPT !.serpGaps =
             IF text.uk = Undefined THEN Arr(<<>>)
             ELSE IF text.uk.t = "array" /\ \A i \in 1..Len(text.uk.items) : text.uk.items[i] \in Gaps
                  THEN Arr(SortGaps(text.uk.items))
                  ELSE text.uk]
    ELSE res

ParseGap(res, text) ==
    IF text.k = "object"
    THEN [res EXCEPT !.serpGaps = IF text.uk = Undefined THEN Arr(<<>>) ELSE text.uk]
    ELSE res

\* lines 1280-1287, 1305-1313, 1330-1335: field = JSON.parse(response)
ParseInto(old, text) == IF text.k = "garbage" THEN old ELSE text.k

\* line 1219 and the try of line 1231
Start ==
    /\ pc = "idle"
    /\ pc' = "a_fetch"
    /\ result' = EmptyResult
    /\ stages' = Append(stages, "GapAnalysis")
    /\ UNCHANGED <<ctx, call, work, requests, logs, ret, sota>>

\* lines 932 and 972: the test of the search API key, if (!serperApiKey)
HasSearchKeyAlways(c) == TRUE

HasSearchKey(c) == c.serperApiKey

\* fetchCompetitorContent, lines 932-934: no key, no request
FetchCompetitorsNoKey ==
    /\ pc = "a_fetch"
    /\ ~HasSearchKey(ctx)
    /\ result' = [result EXCEPT !.paaQuestions = <<>>]
    /\ work' = [work EXCEPT !.competitors = 0]
    /\ call' = EnterCall("gap")
    /\ pc' = "a_gap"
    /\ UNCHANGED <<ctx, requests, stages, logs, ret, sota>>

\* lines 937-941
FetchCompetitorsRequest ==
    /\ pc = "a_fetch"
    /\ HasSearchKey(ctx)
    /\ requests' = Append(requests, Request("search", "serper", "competitors", 0))
    /\ pc' = "a_fetch_wait"
    /\ UNCHANGED <<ctx, call, result, work, stages, logs, ret, sota>>

\* lines 963-966: the request or the reading of its response throws
FetchCompetitorsFails ==
    /\ pc = "a_fetch_wait"
    /\ requests' = SetLastOutcome(requests, "failed", "none")
    /\ result' = [result EXCEPT !.paaQuestions = <<>>]
    /\ work' = [work EXCEPT !.competitors = 0]
    /\ call' = EnterCall("gap")
    /\ pc' = "a_gap"
    /\ UNCHANGED <<ctx, stages, logs, ret, sota>>

\* lines 943-962, then line 1234
FetchCompetitorsReturns ==
    /\ pc = "a_fetch_wait"
    /\ requests' = SetLastOutcome(requests, "ok", "json")
    /\ \E paa \in PaaLists : result' = [result EXCEPT !.paaQuestions = Slice(paa, 8)]
    /\ work' = [work EXCEPT !.competitors = CompetitorBlocks(CompetitorOrganic)]
    /\ call' = EnterCall("gap")
    /\ pc' = "a_gap"
    /\ UNCHANGED <<ctx, stages, logs, ret, sota>>

\* where an error thrown by an awaited call of the analysis lands: the catch
\* of line 1350 (the whole analysis is one try block)
AfterAnalysisThrowFatal(at) == "p_catch"

AfterAnalysisThrow(at) == "a_catch"

\* an awaited callGodModeUltraAI of the analysis throws
AnalysisCallThrows ==
    /\ pc \in {"a_gap", "a_topical", "a_eeat", "a_ai"}
    /\ call.st = "thrown"
    /\ pc' = AfterAnalysisThrow(pc)
    /\ call' = IdleCall
    /\ UNCHANGED <<ctx, result, work, requests, stages, logs, ret, sota>>

\* what follows the gap parse: lines 1265-1278, the topical call
AfterGapParseSkipsTopical ==
    [stage |-> "SignalGeneration", purpose |-> "eeat", pc |-> "a_eeat"]

AfterGapParse ==
    [stage |-> "TopicalExpansion", purpose |-> "topical", pc |-> "a_topical"]

\* lines 1256-1278
GapParse ==
    /\ pc = "a_gap"
    /\ call.st = "returned"
    /\ IF ParseErrorEscapes(call.text)
       THEN /\ pc' = "a_catch"
            /\ call' = IdleCall
            /\ UNCHANGED <<result, stages>>
       ELSE /\ result' = ParseGap(result, call.text)
            /\ stages' = Append(stages, AfterGapParse.stage)
            /\ call' = EnterCall(AfterGapParse.purpose)
            /\ pc' = AfterGapParse.pc
    /\ UNCHANGED <<ctx, work, requests, logs, ret, sota>>

\* lines 1280-1303; line 1289 maps over serpGaps outside any inner try
TopicalParse ==
    /\ pc = "a_topical"
    /\ call.st = "returned"
    /\ result' = [result EXCEPT !.topicalCluster = ParseInto(@, call.text)]
    /\ IF MapThrows(result.serpGaps)
       THEN /\ pc' = "a_catch"
            /\ call' = IdleCall
            /\ UNCHANGED <<stages, work>>
       ELSE /\ work' = [work EXCEPT !.contentOutline = Slice(result.serpGaps.items, 5)]
            /\ pc' = "a_eeat"
            /\ call' = EnterCall("eeat")
            /\ stages' = Append(stages, "SignalGeneration")
    /\ UNCHANGED <<ctx, requests, logs, ret, sota>>

\* lines 1305-1328
EeatParse ==
    /\ pc = "a_eeat"
    /\ call.st = "returned"
    /\ result' = [result EXCEPT !.eeatSignals = ParseInto(@, call.text)]
    /\ stages' = Append(stages, "AIVisibility")
    /\ call' = EnterCall("ai")
    /\ pc' = "a_ai"
    /\ UNCHANGED <<ctx, work, requests, logs, ret, sota>>

\* lines 1330-1335
AiParse ==
    /\ pc = "a_ai"
    /\ call.st = "returned"
    /\ result' = [result EXCEPT !.aiVisibility = ParseInto(@, call.text)]
    /\ call' = IdleCall
    /\ pc' = "a_refs"
    /\ UNCHANGED <<ctx, work, requests, stages, logs, ret, sota>>

\* lines 1350-1353: the catch of the analysis
AnalysisCatch ==
    /\ pc = "a_catch"
    /\ logs' = Append(logs, "Analysis error")
    /\ pc' = "a_return"
    /\ UNCHANGED <<ctx, call, result, work, requests, stages, ret, sota>>

\* line 987: the topics the loop runs over, sectionTopics.slice(0, 6)
SectionsQueriedAll(topics) == topics

SectionsQueried(topics) == Slice(topics, 6)

\* lines 970-987: the locals of fetchDynamicReferences when its loop starts
BeginCuration(w, topics) ==
    [w EXCEPT !.topics = topics, !.sections = SectionsQueried(topics), !.i = 1,
              !.map = <<>>, !.delays = 0]

\* lines 1337-1344 and fetchDynamicReferences up to its first await
\* (lines 969-987); without a key the empty map is returned at once
CurateStart ==
    /\ pc = "a_refs"
    /\ stages' = Append(stages, "ReferenceCuration")
    /\ IF MapThrows(result.serpGaps)
       THEN /\ pc' = "a_catch"
            /\ UNCHANGED <<work, result>>
       ELSE IF ~HasSearchKey(ctx)
       THEN /\ result' = [result EXCEPT !.dynamicReferences = <<>>]
            /\ pc' = "a_return"
            /\ UNCHANGED work
       ELSE /\ work' = BeginCuration(work, Slice(result.serpGaps.items, 6))
            /\ pc' = "r_loop"
            /\ UNCHANGED result
    /\ UNCHANGED <<ctx, call, requests, logs, ret, sota>>

\* lines 987-995: the search request of the next section
SectionQuery ==
    /\ pc = "r_loop"
    /\ work.i <= Len(work.sections)
    /\ requests' = Append(requests, Request("search", "serper", "section", work.i))
    /\ pc' = "r_wait"
    /\ UNCHANGED <<ctx, call, result, work, stages, logs, ret, sota>>

\* lines 1043-1046: the catch is inside the loop body, so the loop goes on
\* with the next section
NextSectionAfterFailureBreaks(w) == Len(w.sections) + 1

NextSectionAfterFailure(w) == w.i + 1

\* lines 1043-1045: the request or the reading of its response throws; the
\* catch is inside the loop, the delay of line 1042 is not run
SectionFails ==
    /\ pc = "r_wait"
    /\ requests' = SetLastOutcome(requests, "failed", "none")
    /\ work' = [work EXCEPT !.i = NextSectionAfterFailure(work)]
    /\ pc' = "r_loop"
    /\ UNCHANGED <<ctx, call, result, stages, logs, ret, sota>>

\* lines 997-1040: the response carries one of the given lists of organic
\* results, which the request log keeps
SectionReturnsFrom(organics) ==
    /\ pc = "r_wait"
    /\ \E organic \in organics :
          /\ requests' = SetLastOutcome(requests, "ok", organic)
          /\ work' = [work EXCEPT !.map = MapSet(@, work.sections[work.i],
                                                 CurateSection(organic, ctx.wpUrl))]
    /\ pc' = "r_delay"
    /\ UNCHANGED <<ctx, call, result, stages, logs, ret, sota>>

SectionReturns == SectionReturnsFrom(PipelineOrganic)

\* line 1042: the 200 ms delay
SectionDelay ==
    /\ pc = "r_delay"
    /\ work' = [work EXCEPT !.i = work.i + 1, !.delays = work.delays + 1]
    /\ pc' = "r_loop"
    /\ UNCHANGED <<ctx, call, result, requests, stages, logs, ret, sota>>

\* line 1048, then lines 1339-1348
CurateDone ==
    /\ pc = "r_loop"
    /\ work.i > Len(work.sections)
    /\ result' = [result EXCEPT !.dynamicReferences = work.map]
    /\ pc' = "a_return"
    /\ UNCHANGED <<ctx, call, work, requests, stages, logs, ret, sota>>

----------------------------------------------------------------------------
(* generateGodModeUltraContent and executeGodModeUltraPipeline *)

\* line 1355, then line 1452
AnalysisReturn ==
    /\ pc = "a_return"
    /\ stages' = Append(stages, "ContentGeneration")
    /\ pc' = "g_prepare"
    /\ UNCHANGED <<ctx, call, result, work, requests, logs, ret, sota>>

\* lines 1368-1372 and 1454-1458: the spread of semanticVariations and the
\* map over serpGaps throw a TypeError on a value of the wrong type
KeywordsThrow(res) ==
    \/ res.topicalCluster = "badfields"
    \/ MapThrows(res.serpGaps)

\* lines 1368-1408
ContentPrepare ==
    /\ pc = "g_prepare"
    /\ IF KeywordsThrow(result)
       THEN /\ pc' = "p_catch"
            /\ UNCHANGED call
       ELSE /\ pc' = "g_call"
            /\ call' = EnterCall("writer")
    /\ UNCHANGED <<ctx, result, work, requests, stages, logs, ret, sota>>

\* the prose call throws: nothing in generateGodModeUltraContent catches it
ContentCallThrows ==
    /\ pc = "g_call"
    /\ call.st = "thrown"
    /\ call' = IdleCall
    /\ pc' = "p_catch"
    /\ UNCHANGED <<ctx, result, work, requests, stages, logs, ret, sota>>

\* lines 1416-1431: where the rendered references block goes
InjectReferences(text, uniqueRefs) ==
    [marker |-> text.marker, conclusion |-> text.conclusion, p |-> text.p,
     banned |-> text.banned,
     blocks |-> IF uniqueRefs # <<>> /\ ~text.marker /\ (text.conclusion => text.p)
                THEN 1 ELSE 0]

\* lines 1410-1435
ContentFinish ==
    /\ pc = "g_call"
    /\ call.st = "returned"
    /\ work' = [work EXCEPT !.content =
                   InjectReferences(call.text, UniqueRefs(Flatten(result.dynamicReferences)))]
    /\ call' = IdleCall
    /\ stages' = Append(stages, "PostProcessing")
    /\ pc' = "p_build"
    /\ UNCHANGED <<ctx, result, requests, logs, ret, sota>>

\* lines 1509-1517
RecordReferences(map) ==
    LET flat == Slice(Flatten(map), 10)
    IN  [i \in 1..Len(flat) |-> [url |-> flat[i].url, source |-> flat[i].domain]]

\* lines 1454-1538
BuildRecord ==
    /\ pc = "p_build"
    /\ IF KeywordsThrow(result)
       THEN /\ pc' = "p_catch"
            /\ UNCHANGED <<ret, stages, logs>>
       ELSE /\ ret' = [kind |-> "record", content |-> work.content,
                       references |-> RecordReferences(result.dynamicReferences),
                       outline |-> result.serpGaps.items,
                       keyTakeaways |-> Slice(result.serpGaps.items, 7)]
            /\ stages' = Append(stages, "Complete")
            /\ logs' = Append(logs, "PIPELINE COMPLETE")
            /\ pc' = "done"
    /\ UNCHANGED <<ctx, call, result, work, requests, sota>>

\* is the terminal diagnostic dispatched by the catch (line 1542)
CatchLogsSilent == <<>>

CatchLogs == <<"Pipeline error">>

\* lines 1540-1544
PipelineCatch ==
    /\ pc = "p_catch"
    /\ logs' = logs \o CatchLogs
    /\ ret' = [NoReturn EXCEPT !.kind = "null"]
    /\ stages' = Append(stages, "Errored")
    /\ pc' = "done"
    /\ UNCHANGED <<ctx, call, result, work, requests, sota>>

----------------------------------------------------------------------------
(* Spec: one run of executeGodModeUltraPipeline *)

\* client registries of the pipeline runs: no registry, no client, the
\* selected client missing (fallback), the selected client present
PipelineContexts ==
    {[apiClients |-> c, selectedModel |-> "gemini", serperApiKey |-> key, wpUrl |-> TRUE] :
        c \in {[present |-> FALSE, has |-> {}], [present |-> TRUE, has |-> {}],
               [present |-> TRUE, has |-> {"openai", "groq"}],
               [present |-> TRUE, has |-> {"gemini"}]},
        key \in BOOLEAN}

Init ==
    /\ ctx \in PipelineContexts
    /\ pc = "idle"
    /\ call = IdleCall
    /\ result = EmptyResult
    /\ work = NoWork
    /\ requests = <<>>
    /\ stages = <<>>
    /\ logs = <<>>
    /\ ret = NoReturn
    /\ sota = NoSota

Next ==
    \/ Start
    \/ FetchCompetitorsNoKey
    \/ FetchCompetitorsRequest
    \/ FetchCompetitorsFails
    \/ FetchCompetitorsReturns
    \/ CallNoRegistry
    \/ CallFallback
    \/ CallNoClients
    \/ CallRequest
    \/ CallRequestFails
    \/ CallReturns
    \/ AnalysisCallThrows
    \/ GapParse
    \/ TopicalParse
    \/ EeatParse
    \/ AiParse
    \/ AnalysisCatch
    \/ CurateStart
    \/ SectionQuery
    \/ SectionFails
    \/ SectionReturns
    \/ SectionDelay
    \/ CurateDone
    \/ AnalysisReturn
    \/ ContentPrepare
    \/ ContentCallThrows
    \/ ContentFinish
    \/ BuildRecord
    \/ PipelineCatch

Spec == Init /\ [][Next]_vars

\* the run when the runtime keeps running what is ready and every request
\* and delay in flight eventually settles: awaits have no timeout (lines
\* 937, 997, 1042, 1153-1209), so nothing else moves a run that waits
SpecLive == Init /\ [][Next]_vars /\ WF_vars(Next)

----------------------------------------------------------------------------
(* SpecCall: one call of callGodModeUltraAI for every registry and model *)

CallContexts ==
    {[apiClients |-> c, selectedModel |-> m, serperApiKey |-> FALSE, wpUrl |-> FALSE] :
        c \in ApiClientsAll, m \in Providers \cup {UnknownModel}}

InitCall ==
    /\ ctx \in CallContexts
    /\ pc = "c_idle"
    /\ call = IdleCall
    /\ result = EmptyResult
    /\ work = NoWork
    /\ requests = <<>>
    /\ stages = <<>>
    /\ logs = <<>>
    /\ ret = NoReturn
    /\ sota = NoSota

\* a caller awaits callGodModeUltraAI(apiClients, selectedModel, ...)
CallBegin ==
    /\ pc = "c_idle"
    /\ call' = EnterCall("direct")
    /\ pc' = "c_wait"
    /\ UNCHANGED <<ctx, result, work, requests, stages, logs, ret, sota>>

\* the promise settles: the text (line 1209) or the error
CallEnd ==
    /\ pc = "c_wait"
    /\ call.st \in {"returned", "thrown"}
    /\ ret' = [NoReturn EXCEPT !.kind = IF call.st = "returned" THEN "text" ELSE "thrown"]
    /\ pc' = "c_done"
    /\ UNCHANGED <<ctx, call, result, work, requests, stages, logs, sota>>

NextCall ==
    \/ CallBegin
    \/ CallNoRegistry
    \/ CallFallback
    \/ CallNoClients
    \/ CallRequest
    \/ CallRequestFails
    \/ CallReturns
    \/ CallEnd

SpecCall == InitCall /\ [][NextCall]_vars

\* the call when the runtime keeps running what is ready and the request in
\* flight eventually settles
SpecCallLive == InitCall /\ [][NextCall]_vars /\ WF_vars(NextCall)

----------------------------------------------------------------------------
(* SpecSota: one run of generateUltraSOTAContent (src/unnamed/part_000) *)

\* lines 139-142: progress(message, step) calls onProgress when it is given;
\* under refreshContentUltraSOTA onProgress is the callback of lines 329-334,
\* which hands the caller the step min(5, 1 + step) of 6
\* a call of the caller's onProgress: with details {step, total} or without,
\* and the number of collaborator calls the run had made by then
Event(sr, details, step, total) ==
    [details |-> details, step |-> step, total |-> total, calls |-> Len(sr.ops)]

ProgressFromZero(sr, step) ==
    IF ~sr.hasProgress THEN sr
    ELSE IF sr.entry = "refresh"
    THEN [sr EXCEPT !.events = Append(@, Event(sr, TRUE, IF step < 5 THEN step ELSE 5, 6))]
    ELSE [sr EXCEPT !.events = Append(@, Event(sr, TRUE, step - 1, 8))]

Progress(sr, step) ==
    IF ~sr.hasProgress THEN sr
    ELSE IF sr.entry = "refresh"
    THEN [sr EXCEPT !.events = Append(@, Event(sr, TRUE, IF 1 + step < 5 THEN 1 + step ELSE 5, 6))]
    ELSE [sr EXCEPT !.events = Append(@, Event(sr, TRUE, step, 8))]

Did(sr, names) == [sr EXCEPT !.ops = @ \o names]

\* an error thrown inside the try of line 144 lands in the catch of line 285
SotaFailSwallowed(sr) == [sr EXCEPT !.pc = "s8"]

SotaFail(sr) == [sr EXCEPT !.pc = "s_catch"]

\* quality scores a report can carry
Scores == {40, 90}

InitSota ==
    /\ ctx \in {[apiClients |-> [present |-> FALSE, has |-> {}], selectedModel |-> "gemini",
                  serperApiKey |-> TRUE, wpUrl |-> FALSE]}
    /\ pc = "sota"
    /\ call = IdleCall
    /\ result = EmptyResult
    /\ work = NoWork
    /\ requests = <<>>
    /\ stages = <<>>
    /\ logs = <<>>
    /\ ret = NoReturn
    /\ \E g \in BOOLEAN, h \in BOOLEAN :
          sota = [NoSota EXCEPT !.pc = "s1", !.useGodMode = g, !.hasProgress = h]

\* lines 145-147: STEP 1, semantic keywords
SotaSemanticKeywords ==
    /\ sota.pc = "s1"
    /\ \E ok \in BOOLEAN :
          LET sr == Did(Progress(sota, 1), <<"enhanceSemanticKeywords">>)
          IN  sota' = IF ok THEN [sr EXCEPT !.pc = "s2"] ELSE SotaFail(sr)
    /\ UNCHANGED <<ctx, pc, call, result, work, requests, stages, logs, ret>>

\* lines 149-156: STEP 2, competitor gap analysis
SotaGapAnalysis ==
    /\ sota.pc = "s2"
    /\ \E ok \in BOOLEAN :
          LET sr == Did(Progress(sota, 2), <<"performCompetitorGapAnalysis">>)
          IN  sota' = IF ok THEN [sr EXCEPT !.pc = "s3"] ELSE SotaFail(sr)
    /\ UNCHANGED <<ctx, pc, call, result, work, requests, stages, logs, ret>>

\* lines 158-195: STEP 3, the article plan (no call that can fail)
SotaBlueprint ==
    /\ sota.pc = "s3"
    /\ sota' = [Progress(sota, 3) EXCEPT !.pc = "s4"]
    /\ UNCHANGED <<ctx, pc, call, result, work, requests, stages, logs, ret>>

\* the step after the model call of line 218: STEP 5, the auto-fixer
AfterModelCallSkipsFix == "s6"

AfterModelCall == "s5"

\* lines 197-219: STEP 4, the prompt and the model call for the prose
SotaModelCall ==
    /\ sota.pc = "s4"
    /\ \E ok \in BOOLEAN :
          LET sr == Did(Progress(sota, 4),
                        <<IF sota.useGodMode THEN "buildGodModePrompt" ELSE "buildUltraSOTAPrompt",
                          "callModel">>)
          IN  sota' = IF ok
                      THEN [sr EXCEPT !.pc = AfterModelCall, !.raw = "raw", !.base = "raw"]
                      ELSE SotaFail(sr)
    /\ UNCHANGED <<ctx, pc, call, result, work, requests, stages, logs, ret>>

\* line 228: baseContent = fixedContent || rawContent
BaseContentRaw(fixedContent, rawContent) == rawContent

BaseContent(fixedContent, rawContent) ==
    IF fixedContent = "" THEN rawContent ELSE fixedContent

\* lines 221-228: STEP 5, validateAndFix
SotaAutoFix ==
    /\ sota.pc = "s5"
    /\ \E out \in {"throws", "", "fixed"} :
          LET sr == Did(Progress(sota, 5), <<"validateAndFix">>)
          IN  sota' = IF out = "throws" THEN SotaFail(sr)
                      ELSE [sr EXCEPT !.pc = "s6", !.fixed = out,
                                      !.base = BaseContent(out, sota.raw)]
    /\ UNCHANGED <<ctx, pc, call, result, work, requests, stages, logs, ret>>

\* lines 230-240: STEP 6, references from a summary of baseContent; the
\* collaborator reports through (msg) => onProgress?.(msg), without details,
\* which the callback of lines 329-334 drops (if (!d) return)
SotaReferences ==
    /\ sota.pc = "s6"
    /\ \E ok \in BOOLEAN, msgs \in 0..1 :
          LET sr == [Did(Progress(sota, 6), <<"generateAndValidateReferences">>)
                        EXCEPT !.summaryOf = sota.base]
              se == IF sota.hasProgress /\ msgs = 1 /\ sota.entry # "refresh"
                    THEN [sr EXCEPT !.events = Append(@, Event(sr, FALSE, 0, 0))]
                    ELSE sr
          IN  sota' = IF ok THEN [se EXCEPT !.pc = "s7"] ELSE SotaFail(se)
    /\ UNCHANGED <<ctx, pc, call, result, work, requests, stages, logs, ret>>

\* line 245: one pass of injectInternalLinks over a content
WithLinks(content) == [content EXCEPT !.links = @ + 1]

\* lines 246-247: the references block appended
WithReferences(content) == [content EXCEPT !.refs = @ + 1]

\* lines 242-247: STEP 7, internal links and the references block
SotaInject ==
    /\ sota.pc = "s7"
    /\ \E ok \in BOOLEAN :
          LET sr == Did(Progress(sota, 7), <<"generateOptimalInternalLinks",
                                            "injectInternalLinks", "generateReferencesHtml">>)
              baseContent == [NoBody EXCEPT !.body = sota.base]
          IN  sota' = IF ok
                      THEN [sr EXCEPT !.pc = "s8",
                                      !.linkedOn = baseContent,
                                      !.content = WithReferences(WithLinks(baseContent))]
                      ELSE SotaFail(sr)
    /\ UNCHANGED <<ctx, pc, call, result, work, requests, stages, logs, ret>>

\* lines 251-256: validateContentQuality builds a new report on the content
\* it is given
QualityReport(content, score) == [on |-> content, score |-> score]

\* line 268: content: contentWithReferences
ResultContentGated(contentWithReferences, qualityReport) ==
    IF qualityReport.score < 50 THEN NoBody ELSE contentWithReferences

ResultContent(contentWithReferences, qualityReport) == contentWithReferences

\* lines 249-284: STEP 8, the quality report, then the result
SotaValidate ==
    /\ sota.pc = "s8"
    /\ \E ok \in BOOLEAN, score \in Scores :
          LET sr == Did(Progress(sota, 8), <<"validateContentQuality", "generateQualityReport">>)
              qualityReport == QualityReport(sota.content, score)
          IN  sota' = IF ok
                      THEN [sr EXCEPT !.pc = "s_done", !.outcome = "result",
                                      !.report = qualityReport,
                                      !.result = [content |-> ResultContent(sota.content, qualityReport),
                                                  qualityReport |-> qualityReport]]
                      ELSE SotaFail(sr)
    /\ UNCHANGED <<ctx, pc, call, result, work, requests, stages, logs, ret>>

\* lines 285-288: the error is logged and rethrown
SotaCatch ==
    /\ sota.pc = "s_catch"
    /\ sota' = [sota EXCEPT !.pc = "s_done", !.outcome = "thrown"]
    /\ UNCHANGED <<ctx, pc, call, result, work, requests, stages, logs, ret>>

NextSota ==
    \/ SotaSemanticKeywords
    \/ SotaGapAnalysis
    \/ SotaBlueprint
    \/ SotaModelCall
    \/ SotaAutoFix
    \/ SotaReferences
    \/ SotaInject
    \/ SotaValidate
    \/ SotaCatch

SpecSota == InitSota /\ [][NextSota]_vars

----------------------------------------------------------------------------
(* SpecExec: one call of executeUltraSOTA (src/unnamed/part_000 lines       *)
(* 367-401), which runs generateUltraSOTAContent directly or inside         *)
(* refreshContentUltraSOTA (lines 294-362)                                  *)

\* the configurations of a call: existingContent and useGodMode are optional
Configs == [mode : {"generate", "refresh"}, existingContent : {"undefined", "", "old"},
            useGodMode : {"undefined", "false", "true"}, onProgress : BOOLEAN]

InitExec ==
    /\ \E config \in Configs :
          ctx = [apiClients |-> [present |-> FALSE, has |-> {}], selectedModel |-> "gemini",
                 serperApiKey |-> TRUE, wpUrl |-> FALSE, config |-> config]
    /\ pc = "x_call"
    /\ call = IdleCall
    /\ result = EmptyResult
    /\ work = NoWork
    /\ requests = <<>>
    /\ stages = <<>>
    /\ logs = <<>>
    /\ ret = NoReturn
    /\ sota = NoSota

\* line 375: config.mode === 'refresh' && config.existingContent
RefreshChosenByModeOnly(config) == config.mode = "refresh"

RefreshChosen(config) ==
    config.mode = "refresh" /\ config.existingContent \notin {"undefined", ""}

\* lines 375-400: the run is handed to one of the two functions
ExecDispatch ==
    /\ pc = "x_call"
    /\ sota' = IF RefreshChosen(ctx.config)
               THEN [NoSota EXCEPT !.pc = "r1", !.entry = "refresh",
                                   !.hasProgress = ctx.config.onProgress]
               ELSE [NoSota EXCEPT !.pc = "s1", !.entry = "generate",
                                   !.hasProgress = ctx.config.onProgress,
                                   !.useGodMode = (ctx.config.useGodMode = "true")]
    /\ pc' = "x_run"
    /\ UNCHANGED <<ctx, call, result, work, requests, stages, logs, ret>>

\* lines 310-312: progress(message, step) of refreshContentUltraSOTA
RefreshProgress(sr, step) ==
    IF sr.hasProgress
    THEN [sr EXCEPT !.events = Append(@, Event(sr, TRUE, step, 6))]
    ELSE sr

\* lines 315-336: the images are kept, then the main pipeline is started
\* with God Mode off
RefreshBegin ==
    /\ pc = "x_run"
    /\ sota.pc = "r1"
    /\ \E ok \in BOOLEAN :
          LET sr == Did(RefreshProgress(sota, 1), <<"extractExistingImages">>)
          IN  sota' = IF ok
                      THEN [RefreshProgress(sr, 2) EXCEPT !.pc = "s1", !.useGodMode = FALSE]
                      ELSE [sr EXCEPT !.pc = "r_catch"]
    /\ UNCHANGED <<ctx, pc, call, result, work, requests, stages, logs, ret>>

\* line 341: injectImagesIntoContent(refreshed.content, existingImages)
WithImagesRelinked(content) == [content EXCEPT !.images = @ + 1, !.links = @ + 1]

WithImages(content) == [content EXCEPT !.images = @ + 1]

\* lines 339-341: the images are put back into the refreshed content
RefreshReinject ==
    /\ pc = "x_run"
    /\ sota.entry = "refresh"
    /\ sota.pc = "s_done"
    /\ sota.outcome = "result"
    /\ \E ok \in BOOLEAN :
          LET sr == Did(RefreshProgress(sota, 5), <<"injectImagesIntoContent">>)
          IN  sota' = IF ok
                      THEN [sr EXCEPT !.pc = "r6",
                                      !.contentWithImages = WithImages(sota.result.content)]
                      ELSE [sr EXCEPT !.pc = "r_catch"]
    /\ UNCHANGED <<ctx, pc, call, result, work, requests, stages, logs, ret>>

\* lines 345-350 and 356: the report of the refresh result
RefreshQualityReportCarried(refreshed, contentWithImages, score) ==
    refreshed.qualityReport

RefreshQualityReport(refreshed, contentWithImages, score) ==
    QualityReport(contentWithImages, score)

\* lines 343-357: the final validation, then the result
RefreshValidate ==
    /\ pc = "x_run"
    /\ sota.pc = "r6"
    /\ \E ok \in BOOLEAN, score \in Scores :
          LET sr == Did(RefreshProgress(sota, 6), <<"validateContentQuality">>)
          IN  IF ok
              THEN /\ sota' = [sr EXCEPT !.pc = "x_done", !.outcome = "result"]
                   /\ ret' = [kind |-> "refreshed", content |-> sota.contentWithImages,
                              qualityReport |-> RefreshQualityReport(sota.result,
                                                    sota.contentWithImages, score)]
                   /\ pc' = "x_done"
              ELSE /\ sota' = [sr EXCEPT !.pc = "r_catch"]
                   /\ UNCHANGED <<pc, ret>>
    /\ UNCHANGED <<ctx, call, result, work, requests, stages, logs>>

\* lines 358-361: an error of a step or of the main pipeline is rethrown
RefreshCatch ==
    /\ pc = "x_run"
    /\ sota.entry = "refresh"
    /\ \/ sota.pc = "r_catch"
       \/ sota.pc = "s_done" /\ sota.outcome = "thrown"
    /\ sota' = [sota EXCEPT !.pc = "x_done", !.outcome = "thrown"]
    /\ ret' = [kind |-> "thrown", content |-> NoBody, qualityReport |-> NoReport]
    /\ pc' = "x_done"
    /\ UNCHANGED <<ctx, call, result, work, requests, stages, logs>>

\* lines 388-400: the outcome of generateUltraSOTAContent is the outcome of
\* the call
ExecReturn ==
    /\ pc = "x_run"
    /\ sota.entry = "generate"
    /\ sota.pc = "s_done"
    /\ ret' = IF sota.outcome = "result"
              THEN [kind |-> "generated", content |-> sota.result.content,
                    qualityReport |-> sota.result.qualityReport]
              ELSE [kind |-> "thrown", content |-> NoBody, qualityReport |-> NoReport]
    /\ sota' = [sota EXCEPT !.pc = "x_done"]
    /\ pc' = "x_done"
    /\ UNCHANGED <<ctx, call, result, work, requests, stages, logs>>

NextExec ==
    \/ ExecDispatch
    \/ RefreshBegin
    \/ SotaSemanticKeywords
    \/ SotaGapAnalysis
    \/ SotaBlueprint
    \/ SotaModelCall
    \/ SotaAutoFix
    \/ SotaReferences
    \/ SotaInject
    \/ SotaValidate
    \/ SotaCatch
    \/ RefreshReinject
    \/ RefreshValidate
    \/ RefreshCatch
    \/ ExecReturn

SpecExec == InitExec /\ [][NextExec]_vars

----------------------------------------------------------------------------
(* SpecCurate: one call of fetchDynamicReferences, whose map is then        *)
(* rendered by generateReferencesHtml                                       *)

\* the most section topics a caller supplies
MaxTopics == 7

TopicNames == <<"s1", "s2", "s3", "s4", "s5", "s6", "s7", "s8", "s9">>

\* the sectionTopics arguments: none, two, as many as MaxTopics, and a list
\* in which a topic occurs twice
TopicLists ==
    {SubSeq(TopicNames, 1, n) : n \in {0, 2, MaxTopics}} \cup {<<"s1", "s2", "s1">>}

\* data.organic of a section query: nine results in ascending authority
\* with a blocked and an own-domain result among the first eight; a short
\* list with a link that is no URL and a host that contains the own host;
\* equal scores behind a higher one; three results of three categories
CurateOrganic ==
    {<<[link |-> "e1", host |-> "example.com"], [link |-> "w1", host |-> "wired.com"],
       [link |-> "f1", host |-> "forbes.com"], [link |-> "n1", host |-> "nature.com"],
       [link |-> "r1", host |-> "reddit.com"], [link |-> "p1", host |-> "pubmed.ncbi.nlm.nih.gov"],
       [link |-> "c1", host |-> "cdc.gov"], [link |-> "m1", host |-> "mysite.com"],
       [link |-> "c9", host |-> "cdc.gov"]>>,
     <<[link |-> "a1", host |-> "example.com"], [link |-> "d1", host |-> "notmysite.com"],
       [link |-> "x1", host |-> "not a url"], [link |-> "a3", host |-> "wired.com"]>>,
     <<[link |-> "b1", host |-> "forbes.com"], [link |-> "b2", host |-> "academia.edu"],
       [link |-> "b3", host |-> "forbes.com"], [link |-> "b4", host |-> "forbes.com"],
       [link |-> "b5", host |-> "cdc.gov"]>>,
     <<[link |-> "k1", host |-> "nature.com"], [link |-> "k2", host |-> "cdc.gov"],
       [link |-> "k3", host |-> "wired.com"]>>}

CurateContexts ==
    {[apiClients |-> [present |-> FALSE, has |-> {}], selectedModel |-> "gemini",
      serperApiKey |-> key, wpUrl |-> wp] : key \in BOOLEAN, wp \in BOOLEAN}

InitCurate ==
    /\ ctx \in CurateContexts
    /\ pc = "f_call"
    /\ call = IdleCall
    /\ result = EmptyResult
    /\ \E topics \in TopicLists : work = [NoWork EXCEPT !.topics = topics]
    /\ requests = <<>>
    /\ stages = <<>>
    /\ logs = <<>>
    /\ ret = NoReturn
    /\ sota = NoSota

\* lines 969-987: fetchDynamicReferences(keyword, sectionTopics, serperApiKey,
\* wpUrl) up to its first await; without a key the empty map is returned
FetchReferencesCall ==
    /\ pc = "f_call"
    /\ IF ~HasSearchKey(ctx)
       THEN /\ result' = [result EXCEPT !.dynamicReferences = <<>>]
            /\ pc' = "a_return"
            /\ UNCHANGED work
       ELSE /\ work' = BeginCuration(work, work.topics)
            /\ pc' = "r_loop"
            /\ UNCHANGED result
    /\ UNCHANGED <<ctx, call, requests, stages, logs, ret, sota>>

CurateSectionReturns == SectionReturnsFrom(CurateOrganic)

\* lines 1052-1059: generateReferencesHtml(referenceMap, keyword) builds the
\* list it renders
RenderReferences ==
    /\ pc = "a_return"
    /\ ret' = [NoReturn EXCEPT !.kind = "html",
                               !.references = UniqueRefs(Flatten(result.dynamicReferences))]
    /\ pc' = "f_done"
    /\ UNCHANGED <<ctx, call, result, work, requests, stages, logs, sota>>

NextCurate ==
    \/ FetchReferencesCall
    \/ SectionQuery
    \/ SectionFails
    \/ CurateSectionReturns
    \/ SectionDelay
    \/ CurateDone
    \/ RenderReferences

SpecCurate == InitCurate /\ [][NextCurate]_vars

----------------------------------------------------------------------------
(* SpecFresh: the freshness years, computed when the module is loaded, and  *)
(* the fields of the two pipelines that carry a year                        *)

\* the calendar years of the clock
MinYear == 2024

MaxYear == 2034

\* new Date(): the calendar year and the month of the year, 1 to 12
Clocks == {[year |-> y, month |-> m] : y \in MinYear..MaxYear, m \in 1..12}

\* Date.prototype.getMonth(): 0 for January
GetMonth(now) == now.month - 1

\* line 2
CURRENT_YEAR(now) == now.year

\* line 3: advanced by one in the last month of the year
TARGET_YEAR_NeverAdvanced(now) ==
    IF GetMonth(now) = 12 THEN CURRENT_YEAR(now) + 1 ELSE CURRENT_YEAR(now)

TARGET_YEAR(now) ==
    IF GetMonth(now) = 11 THEN CURRENT_YEAR(now) + 1 ELSE CURRENT_YEAR(now)

\* line 4
PREVIOUS_YEAR(now) == TARGET_YEAR(now) - 1

\* a field of an output, or a query, the year it names (the year the
\* content is written for, "target", or the one before, "previous") and the
\* number written into it
Stamp(r, field, names, year) ==
    [r EXCEPT !.stamps = Append(@, [field |-> field, names |-> names, year |-> year])]

InitFresh ==
    /\ \E now \in Clocks :
          ctx = [apiClients |-> [present |-> FALSE, has |-> {}], selectedModel |-> "gemini",
                 serperApiKey |-> TRUE, wpUrl |-> FALSE, now |-> now]
    /\ pc = "y_load"
    /\ call = IdleCall
    /\ result = EmptyResult
    /\ work = NoWork
    /\ requests = <<>>
    /\ stages = <<>>
    /\ logs = <<>>
    /\ ret = NoReturn
    /\ sota = NoSota

\* lines 1-4 and 1109-1111: the constants of the module
LoadModule ==
    /\ pc = "y_load"
    /\ ret' = [kind |-> "years", target |-> TARGET_YEAR(ctx.now),
               previous |-> PREVIOUS_YEAR(ctx.now), stamps |-> <<>>]
    /\ pc' = "y_query"
    /\ UNCHANGED <<ctx, call, result, work, requests, stages, logs, sota>>

\* line 988: the section query, and line 410: the year filter of a prompt
FreshSectionQuery ==
    /\ pc = "y_query"
    /\ ret' = Stamp(Stamp(Stamp(ret, "sectionQuery", "target", TARGET_YEAR(ctx.now)),
                           "yearFilter", "target", TARGET_YEAR(ctx.now)),
                     "yearFilterPrevious", "previous", PREVIOUS_YEAR(ctx.now))
    /\ pc' = "y_reference"
    /\ UNCHANGED <<ctx, call, result, work, requests, stages, logs, sota>>

\* lines 1032 and 1516: a result without a date; publicationDate is
\* TARGET_YEAR.toString() and year is parseInt(publicationDate) || TARGET_YEAR
FreshReference ==
    /\ pc = "y_reference"
    /\ ret' = Stamp(Stamp(ret, "publicationDate", "target", TARGET_YEAR(ctx.now)),
                     "referenceYear", "target", TARGET_YEAR(ctx.now))
    /\ pc' = "y_record"
    /\ UNCHANGED <<ctx, call, result, work, requests, stages, logs, sota>>

\* lines 1466 and 1468: title and metaDescription of the record
FreshRecord ==
    /\ pc = "y_record"
    /\ ret' = Stamp(Stamp(ret, "title", "target", TARGET_YEAR(ctx.now)),
                     "metaDescription", "target", TARGET_YEAR(ctx.now))
    /\ pc' = "y_plan"
    /\ UNCHANGED <<ctx, call, result, work, requests, stages, logs, sota>>

\* src/unnamed/part_000 line 184: the second key takeaway of the article
\* plan, "Recent trends show that <year> favors ...", is written with
\* new Date().getFullYear()
FreshArticlePlan ==
    /\ pc = "y_plan"
    /\ ret' = Stamp(ret, "keyTakeaways", "target", ctx.now.year)
    /\ pc' = "y_done"
    /\ UNCHANGED <<ctx, call, result, work, requests, stages, logs, sota>>

NextFresh ==
    \/ LoadModule
    \/ FreshSectionQuery
    \/ FreshReference
    \/ FreshRecord
    \/ FreshArticlePlan

SpecFresh == InitFresh /\ [][NextFresh]_vars

----------------------------------------------------------------------------
(* SpecCompete: one call of fetchCompetitorContent, lines 931-967 *)

\* the longest organic list of a search response
MaxOrganic == 4

OrganicResults == {"o1", "o2", "o3"}

\* a null entry of an array of the response
NullEntry == "null"

Questions == <<"q1", "q2", "q3", "q4", "q5", "q6", "q7", "q8", "q9">>

\* the organic field of a response: absent, no array, an array with a null
\* entry at rank 2 or at rank 4, an array of results
OrganicFields ==
    {Undefined, NotArray, Arr(<<"o1", NullEntry>>), Arr(<<"o1", "o2", "o3", NullEntry>>)}
        \cup {Arr(q) : q \in SeqsUpTo(OrganicResults, MaxOrganic)}

\* the peopleAlsoAsk field: absent, no array, an array with a null entry, an
\* array of no, two, eight, nine questions
PaaFields ==
    {Undefined, NotArray, Arr(<<"q1", NullEntry>>)}
        \cup {Arr(SubSeq(Questions, 1, n)) : n \in {0, 2, 8, 9}}

\* what response.json() gives: it rejects, null, or an object
SearchResponses ==
    {[k |-> "badjson", organic |-> Undefined, peopleAlsoAsk |-> Undefined],
     [k |-> "null", organic |-> Undefined, peopleAlsoAsk |-> Undefined]}
        \cup {[k |-> "object", organic |-> o, peopleAlsoAsk |-> q] :
                 o \in OrganicFields, q \in PaaFields}

\* the text block of a result (lines 948-953); '' for a missing rank
NoBlock == [of |-> "none"]

CompetitorBlock(res) == [of |-> res]

\* lines 933 and 965: three empty blocks and no questions
NoCompetitors ==
    [kind |-> "competitors", competitor1 |-> NoBlock, competitor2 |-> NoBlock,
     competitor3 |-> NoBlock, paaQuestions |-> <<>>]

\* v || []
OrEmptyArray(v) == IF v.t = "undefined" THEN Arr(<<>>) ELSE v

\* v.map(f) with f reading a field of the entry throws a TypeError: v is no
\* array, or an entry is null
ReadingThrows(v) ==
    \/ v.t # "array"
    \/ \E i \in 1..Len(v.items) : v.items[i] = NullEntry

\* lines 943-962 throw inside the try
ResponseThrows(data) ==
    \/ data.k # "object"
    \/ OrEmptyArray(data.organic).t # "array"
    \/ ReadingThrows(Arr(Slice(OrEmptyArray(data.organic).items, 3)))
    \/ ReadingThrows(OrEmptyArray(data.peopleAlsoAsk))

\* competitors[i] || ''
BlockAt(blocks, i) == IF i <= Len(blocks) THEN blocks[i] ELSE NoBlock

\* lines 944-962
CompetitorContent(data) ==
    LET organic == OrEmptyArray(data.organic).items
        paa == OrEmptyArray(data.peopleAlsoAsk).items
        top == Slice(organic, 3)
        competitors == [i \in 1..Len(top) |-> CompetitorBlock(top[i])]
    IN  [kind |-> "competitors",
         competitor1 |-> BlockAt(competitors, 1),
         competitor2 |-> BlockAt(competitors, 2),
         competitor3 |-> BlockAt(competitors, 3),
         paaQuestions |-> Slice(paa, 8)]

\* lines 963-966: the catch of the function
CompetitorCatchRethrows == [NoCompetitors EXCEPT !.kind = "thrown"]

CompetitorCatch == NoCompetitors

InitCompete ==
    /\ ctx \in {[apiClients |-> [present |-> FALSE, has |-> {}], selectedModel |-> "gemini",
                  serperApiKey |-> key, wpUrl |-> FALSE] : key \in BOOLEAN}
    /\ pc = "m_call"
    /\ call = IdleCall
    /\ result = EmptyResult
    /\ work = NoWork
    /\ requests = <<>>
    /\ stages = <<>>
    /\ logs = <<>>
    /\ ret = NoReturn
    /\ sota = NoSota

\* lines 932-934
CompeteNoKey ==
    /\ pc = "m_call"
    /\ ~HasSearchKey(ctx)
    /\ ret' = NoCompetitors
    /\ pc' = "m_done"
    /\ UNCHANGED <<ctx, call, result, work, requests, stages, logs, sota>>

\* lines 937-941
CompeteRequest ==
    /\ pc = "m_call"
    /\ HasSearchKey(ctx)
    /\ requests' = Append(requests, Request("search", "serper", "competitors", 0))
    /\ pc' = "m_wait"
    /\ UNCHANGED <<ctx, call, result, work, stages, logs, ret, sota>>

\* lines 937 and 963-966: fetch rejects
CompeteRequestFails ==
    /\ pc = "m_wait"
    /\ requests' = SetLastOutcome(requests, "failed", "none")
    /\ ret' = CompetitorCatch
    /\ pc' = "m_done"
    /\ UNCHANGED <<ctx, call, result, work, stages, logs, sota>>

\* lines 943-966: the response arrives and is read
CompeteReturns ==
    /\ pc = "m_wait"
    /\ \E data \in SearchResponses :
          /\ requests' = [SetLastOutcome(requests, "ok", data.k) EXCEPT ![Len(requests)].body = data]
          /\ ret' = IF ResponseThrows(data) THEN CompetitorCatch ELSE CompetitorContent(data)
    /\ pc' = "m_done"
    /\ UNCHANGED <<ctx, call, result, work, stages, logs, sota>>

NextCompete ==
    \/ CompeteNoKey
    \/ CompeteRequest
    \/ CompeteRequestFails
    \/ CompeteReturns

SpecCompete == InitCompete /\ [][NextCompete]_vars

----------------------------------------------------------------------------
(* SpecSlug: the slug of the output record, lines 1460-1463 *)

\* the longest keyword
MaxKeywordLen == 4

\* characters of a keyword: a lower-case letter, an upper-case letter, a
\* digit, a space, a hyphen, a punctuation mark
KeywordChars == {"a", "B", "7", " ", "-", "!"}

Keywords == SeqsUpTo(KeywordChars, MaxKeywordLen)

\* String.prototype.toLowerCase
ToLowerCase(str) == [i \in 1..Len(str) |-> IF str[i] = "B" THEN "b" ELSE str[i]]

\* the character class [a-z0-9]
IsAlphanumeric(c) == c \in {"a", "b", "7"}

\* .replace(/[^a-z0-9]+/g, '-'): inRun says that the character before was
\* outside the class, and its run has got its hyphen
RECURSIVE CollapseFrom(_, _)
CollapseFrom(str, inRun) ==
    IF str = <<>> THEN <<>>
    ELSE IF IsAlphanumeric(Head(str)) THEN <<Head(str)>> \o CollapseFrom(Tail(str), FALSE)
    ELSE IF inRun THEN CollapseFrom(Tail(str), TRUE)
    ELSE <<"-">> \o CollapseFrom(Tail(str), TRUE)

CollapseRuns(str) == CollapseFrom(str, FALSE)

\* .replace(/(^-|-$)/g, ''): a hyphen at the start and one at the end
TrimHyphensLeadingOnly(str) ==
    IF str # <<>> /\ Head(str) = "-" THEN Tail(str) ELSE str

TrimHyphens(str) ==
    LET front == IF str # <<>> /\ Head(str) = "-" THEN Tail(str) ELSE str
    IN  IF front # <<>> /\ front[Len(front)] = "-" THEN SubSeq(front, 1, Len(front) - 1)
        ELSE front

\* lines 1460-1463
Slug(keyword) == TrimHyphens(CollapseRuns(ToLowerCase(keyword)))

InitSlug ==
    /\ \E keyword \in Keywords :
          ctx = [apiClients |-> [present |-> FALSE, has |-> {}], selectedModel |-> "gemini",
                 serperApiKey |-> FALSE, wpUrl |-> FALSE, keyword |-> keyword]
    /\ pc = "k_slug"
    /\ call = IdleCall
    /\ result = EmptyResult
    /\ work = NoWork
    /\ requests = <<>>
    /\ stages = <<>>
    /\ logs = <<>>
    /\ ret = NoReturn
    /\ sota = NoSota

\* lines 1460-1467: the slug field of the record
MakeSlug ==
    /\ pc = "k_slug"
    /\ ret' = [kind |-> "slug", slug |-> Slug(ctx.keyword)]
    /\ pc' = "k_done"
    /\ UNCHANGED <<ctx, call, result, work, requests, stages, logs, sota>>

NextSlug ==
    \/ MakeSlug

SpecSlug == InitSlug /\ [][NextSlug]_vars

----------------------------------------------------------------------------
(* SpecLinks: injectInternalLinks, src/unnamed/part_000 lines 408-424.
   Texts are sequences of characters. *)

\* the longest content body
MaxBodyLen == 3

\* characters of a body: a letter in both cases, another letter, a space
BodyChars == {"x", "X", "y", " "}

Bodies == SeqsUpTo(BodyChars, MaxBodyLen)

\* anchor texts: one inside another, and one differing from another in case
AnchorTexts == {<<"x">>, <<"X">>, <<"y">>, <<"x", "y">>}

\* target slugs: each holds an anchor text
TargetSlugs == {<<"/", "y">>, <<"/", "x", "y">>}

LinkSuggestions == [anchorText : AnchorTexts, targetSlug : TargetSlugs]

\* the suggestion lists of a call: none, one, two (the same one twice too)
SuggestionLists ==
    {<<>>} \cup {<<l>> : l \in LinkSuggestions}
           \cup {<<l, m>> : l \in LinkSuggestions, m \in LinkSuggestions}

\* the i flag of the pattern: letters are compared without their case
FoldCase(c) == IF c = "X" THEN "x" ELSE c

MatchesAtCaseSensitive(text, p, anchor) ==
    /\ p + Len(anchor) - 1 <= Len(text)
    /\ \A k \in 1..Len(anchor) : text[p + k - 1] = anchor[k]

\* lines 416-417: the escaped anchor is a literal, matched at place p of the text
MatchesAt(text, p, anchor) ==
    /\ p + Len(anchor) - 1 <= Len(text)
    /\ \A k \in 1..Len(anchor) : FoldCase(text[p + k - 1]) = FoldCase(anchor[k])

\* the place of the leftmost match from place p on, 0 when there is none
RECURSIVE FirstMatchFrom(_, _, _)
FirstMatchFrom(text, p, anchor) ==
    IF p + Len(anchor) - 1 > Len(text) THEN 0
    ELSE IF MatchesAt(text, p, anchor) THEN p
    ELSE FirstMatchFrom(text, p + 1, anchor)

\* line 420: `<a href="${link.targetSlug}">$1</a>`
Hyperlink(targetSlug, matched) ==
    <<"<", "a", " ", "h", "r", "e", "f", "=", "\"">> \o targetSlug \o <<"\"", ">">>
        \o matched \o <<"<", "/", "a", ">">>

\* lines 418-421: String.prototype.replace with a pattern without the g flag
ReplaceFirst(text, link) ==
    LET p == FirstMatchFrom(text, 1, link.anchorText)
        n == Len(link.anchorText)
    IN  IF p = 0 THEN text
        ELSE SubSeq(text, 1, p - 1)
                \o Hyperlink(link.targetSlug, SubSeq(text, p, p + n - 1))
                \o SubSeq(text, p + n, Len(text))

InitLinks ==
    /\ ctx = [apiClients |-> [present |-> FALSE, has |-> {}], selectedModel |-> "gemini",
              serperApiKey |-> FALSE, wpUrl |-> FALSE]
    /\ pc = "l_call"
    /\ call = IdleCall
    /\ result = EmptyResult
    /\ \E content \in Bodies, links \in SuggestionLists :
          work = [content |-> content, links |-> links, i |-> 1, updated |-> content,
                  linked |-> <<>>]
    /\ requests = <<>>
    /\ stages = <<>>
    /\ logs = <<>>
    /\ ret = NoReturn
    /\ sota = NoSota

\* line 412: if (!links.length) return content
InjectNothing ==
    /\ pc = "l_call"
    /\ Len(work.links) = 0
    /\ ret' = [kind |-> "linked", content |-> work.content]
    /\ pc' = "l_done"
    /\ UNCHANGED <<ctx, call, result, work, requests, stages, logs, sota>>

\* lines 414-415: let updated = content; for (const link of links)
InjectBegin ==
    /\ pc = "l_call"
    /\ Len(work.links) > 0
    /\ pc' = "l_loop"
    /\ UNCHANGED <<ctx, call, result, work, requests, stages, logs, ret, sota>>

\* lines 415-422: one suggestion; linked keeps the anchor texts that got a
\* hyperlink
InjectLink ==
    /\ pc = "l_loop"
    /\ work.i <= Len(work.links)
    /\ LET link == work.links[work.i]
           updated == ReplaceFirst(work.updated, link)
       IN  work' = [work EXCEPT !.i = @ + 1,
                                !.updated = updated,
                                !.linked = IF updated # work.updated
                                           THEN Append(@, link.anchorText) ELSE @]
    /\ UNCHANGED <<ctx, pc, call, result, requests, stages, logs, ret, sota>>

\* line 423: return updated
InjectReturn ==
    /\ pc = "l_loop"
    /\ work.i > Len(work.links)
    /\ ret' = [kind |-> "linked", content |-> work.updated]
    /\ pc' = "l_done"
    /\ UNCHANGED <<ctx, call, result, work, requests, stages, logs, sota>>

NextLinks ==
    \/ InjectNothing
    \/ InjectBegin
    \/ InjectLink
    \/ InjectReturn

SpecLinks == InitLinks /\ [][NextLinks]_vars

----------------------------------------------------------------------------
(* Properties of the Provider Invocation Layer *)

IndexOf(p) == CHOOSE i \in 1..Len(fallbackOrder) : fallbackOrder[i] = p

ProviderRequests == {i \in 1..Len(requests) : requests[i].kind = "provider"}

SelectedMissing == ctx.apiClients.present /\ ctx.selectedModel \notin ctx.apiClients.has

NoClientAtAll == ~ctx.apiClients.present \/ ctx.apiClients.has = {}

\* C1: when the selected provider has no client and some provider has one,
\* the provider a request goes to has a client and no provider before it in
\* gemini, openai, anthropic, openrouter, groq has one; and the finished call
\* has sent its request to a provider.
C1_FallbackIsFirstAvailable ==
    (SelectedMissing /\ ~NoClientAtAll) =>
        /\ \A i \in ProviderRequests :
              /\ requests[i].to \in ctx.apiClients.has
              /\ \A j \in 1..Len(fallbackOrder) :
                    fallbackOrder[j] \in ctx.apiClients.has => IndexOf(requests[i].to) <= j
        /\ pc = "c_done" => ProviderRequests # {}

C1_Witness ==
    /\ pc = "c_done"
    /\ ctx.selectedModel = "gemini"
    /\ ctx.apiClients.has = {"anthropic", "groq"}
    /\ Len(requests) = 1
    /\ requests[1].to = "anthropic"

\* C2: with no registry, or with no client for any of the five providers,
\* no provider request is ever issued and the call ends by throwing one of
\* the two configuration errors.
C2_NoClientIsConfigurationError ==
    NoClientAtAll =>
        /\ ProviderRequests = {}
        /\ call.st \notin {"awaiting", "returned"}
        /\ pc = "c_done" =>
              /\ ret.kind = "thrown"
              /\ call.error \in {"API clients not initialized", "No API clients available"}

C2_Witness ==
    /\ pc = "c_done"
    /\ ctx.apiClients.present
    /\ ctx.apiClients.has = {}
    /\ ret.kind = "thrown"
    /\ call.error = "No API clients available"

CallSite(r) == <<r.kind, r.purpose, r.idx>>

\* C3: one call sends at most one request; once its request has failed the
\* call is in its thrown state with the provider's error (never entered or
\* awaiting again); and over a pipeline run no call site (a stage's provider
\* call, the competitor search, the query of one section) sends twice.
C3_NoRetry ==
    /\ call.sent <= 1
    /\ (call.st # "idle" /\ call.sent = 1 /\ requests[Len(requests)].outcome = "failed") =>
          (call.st = "thrown" /\ call.error = "ProviderCallError")
    /\ \A i, j \in 1..Len(requests) : i < j => CallSite(requests[i]) # CallSite(requests[j])
    /\ \A i \in 1..Len(requests) : i < Len(requests) => requests[i].outcome # "pending"

C3_Witness ==
    /\ pc = "done"
    /\ \E i, j \in 1..Len(requests) :
          /\ requests[i].kind = "provider" /\ requests[i].outcome = "failed"
          /\ requests[j].kind = "search" /\ requests[j].purpose = "section"
          /\ requests[j].outcome = "failed"

----------------------------------------------------------------------------
(* Properties of the pipeline run *)

Entered(stage) == \E i \in 1..Len(stages) : stages[i] = stage

FailedCall(purposes) ==
    \E i \in ProviderRequests :
        requests[i].purpose \in purposes /\ requests[i].outcome = "failed"

AnalyticPurposes == {"gap", "topical", "eeat", "ai"}

\* a value of the wrong type makes a step outside every inner try throw
TypeErrorPending ==
    \/ result.serpGaps.t # "array"
    \/ \E i \in 1..Len(result.serpGaps.items) : result.serpGaps.items[i] = NullGap
    \/ result.topicalCluster = "badfields"

\* C4: a finished run has returned a record or null; null is returned only
\* when no provider client is available or a step outside every local catch
\* failed (the prose call, or a TypeError while the keyword lists are
\* built), and then the last event dispatched is the 'Pipeline error' log.
C4_ReturnsRecordOrNull ==
    /\ pc = "done" => ret.kind \in {"record", "null"}
    /\ pc # "done" => ret.kind = "none"
    /\ ret.kind = "null" =>
          /\ NoClientAtAll \/ FailedCall({"writer"}) \/ TypeErrorPending
          /\ logs # <<>>
          /\ logs[Len(logs)] = "Pipeline error"

C4_Witness ==
    /\ pc = "done"
    /\ ret.kind = "null"
    /\ ~NoClientAtAll
    /\ FailedCall({"writer"})
    /\ Entered("ReferenceCuration")

ProseCall(outcome) ==
    \E i \in ProviderRequests :
        requests[i].purpose = "writer" /\ requests[i].outcome = outcome

\* C5: a run in which a provider call of an analytical stage failed still
\* enters content generation; a finished run whose prose call succeeded
\* returned a record, and one whose prose call failed returned null.
C5_AnalyticFailureNotFatal ==
    pc = "done" =>
        /\ FailedCall(AnalyticPurposes) => Entered("ContentGeneration")
        /\ ProseCall("ok") => ret.kind = "record"
        /\ ProseCall("failed") => ret.kind = "null"

C5_Witness ==
    /\ pc = "done"
    /\ FailedCall({"gap"})
    /\ ProseCall("ok")
    /\ ret.kind = "record"

C5_WitnessFatal ==
    /\ pc = "done"
    /\ ~FailedCall(AnalyticPurposes)
    /\ ProseCall("failed")
    /\ ret.kind = "null"

\* C6: after a provider-call failure in an analytical stage the later
\* analytical stages are still executed: once the analysis has returned,
\* reference curation (the last of them) has been entered.
C6_LaterStagesStillRun ==
    (FailedCall(AnalyticPurposes) /\ Entered("ContentGeneration")) =>
        Entered("ReferenceCuration")

GapGot(kinds) ==
    \E i \in ProviderRequests : requests[i].purpose = "gap" /\ requests[i].got \in kinds

\* C7: when the gap response does not parse, the gap list is and stays the
\* empty list, the analysis goes on with topical expansion, it returns
\* normally (content generation is entered), and unless a later provider
\* call fails every later analytical stage has been entered by then.
C7_UnparseableGapResponse ==
    GapGot({"garbage"}) =>
        /\ result.serpGaps = Arr(<<>>)
        /\ pc # "a_gap" => Entered("TopicalExpansion")
        /\ pc = "done" => Entered("ContentGeneration")
        /\ (Entered("ContentGeneration") /\ ~FailedCall(AnalyticPurposes)) =>
              /\ Entered("SignalGeneration")
              /\ Entered("AIVisibility")
              /\ Entered("ReferenceCuration")

C7_Witness ==
    /\ pc = "done"
    /\ GapGot({"garbage"})
    /\ Entered("ReferenceCuration")
    /\ ret.kind = "record"

\* C8: whatever the model returned, serpGaps is a list of gaps, each of
\* topicalCluster, eeatSignals and aiVisibility is null or a parsed object,
\* dynamicReferences is a map and paaQuestions a list, and no step fails on
\* the type of a field.
C8_ResultWellTyped ==
    /\ result.serpGaps.t = "array"
    /\ \A i \in 1..Len(result.serpGaps.items) : result.serpGaps.items[i] \in Gaps
    /\ result.topicalCluster \in {"null", "object"}
    /\ result.eeatSignals \in {"null", "object"}
    /\ result.aiVisibility \in {"null", "object"}
    /\ \A i \in 1..Len(result.dynamicReferences) :
          result.dynamicReferences[i].section \in Gaps
    /\ ~TypeErrorPending

StageOrder ==
    <<"GapAnalysis", "TopicalExpansion", "SignalGeneration", "AIVisibility",
      "ReferenceCuration", "ContentGeneration", "PostProcessing", "Complete">>

\* Errored ends a run instead of Complete
StageRank(stage) ==
    IF stage = "Errored" THEN Len(StageOrder)
    ELSE CHOOSE i \in 1..Len(StageOrder) : StageOrder[i] = stage

StageOfRequest(r) ==
    CASE r.purpose \in {"competitors", "gap"} -> "GapAnalysis"
      [] r.purpose = "topical" -> "TopicalExpansion"
      [] r.purpose = "eeat" -> "SignalGeneration"
      [] r.purpose = "ai" -> "AIVisibility"
      [] r.purpose = "section" -> "ReferenceCuration"
      [] OTHER -> "ContentGeneration"

SomethingFailed ==
    \/ NoClientAtAll
    \/ \E i \in 1..Len(requests) : requests[i].outcome = "failed"
    \/ TypeErrorPending

\* C9: the stages are entered in the fixed order, each at most once and
\* none after a later one; every request belongs to the stage entered last
\* (a stage's work ends before the next stage starts); and a stage is passed
\* over only in a run in which something failed.
C9_StagesInOrder ==
    /\ \A i, j \in 1..Len(stages) : i < j => StageRank(stages[i]) < StageRank(stages[j])
    /\ \A i \in 1..Len(requests) :
          requests[i].outcome = "pending" => StageOfRequest(requests[i]) = stages[Len(stages)]
    /\ \A i, j \in 1..Len(requests) :
          i < j => StageRank(StageOfRequest(requests[i])) <= StageRank(StageOfRequest(requests[j]))
    /\ \A k \in 1..Len(StageOrder) :
          (~Entered(StageOrder[k]) /\ \E i \in 1..Len(stages) : StageRank(stages[i]) > k)
              => SomethingFailed

C9_Witness ==
    /\ pc = "done"
    /\ stages = StageOrder
    /\ ~SomethingFailed
    /\ Len(requests) >= 7

----------------------------------------------------------------------------
(* Properties of generateUltraSOTAContent *)

\* the place of an operation in the run so far, 0 when it has not run
Pos(op) ==
    IF \E i \in 1..Len(sota.ops) : sota.ops[i] = op
    THEN CHOOSE i \in 1..Len(sota.ops) : sota.ops[i] = op
    ELSE 0

\* each operation of the list that has run was preceded by the one before it
InOrder(chain) ==
    \A k \in 2..Len(chain) :
        Pos(chain[k]) # 0 => (Pos(chain[k - 1]) # 0 /\ Pos(chain[k - 1]) < Pos(chain[k]))

AtMostOnce ==
    \A i, j \in 1..Len(sota.ops) : i < j => sota.ops[i] # sota.ops[j]

\* C10 as stated: gap analysis, then reference curation, then the model
\* call for prose, then the auto-fixer, then link and reference injection,
\* then quality validation.
C10_ReferencesBeforeProse ==
    InOrder(<<"performCompetitorGapAnalysis", "generateAndValidateReferences", "callModel",
              "validateAndFix", "injectInternalLinks", "generateReferencesHtml",
              "validateContentQuality">>)

\* C10 amended: gap analysis, then the model call for prose, then the
\* auto-fixer, then reference generation, then link and reference injection,
\* then quality validation, each once; nothing but the report text follows
\* the validation before the result is built.
C10_StepsInCodeOrder ==
    /\ InOrder(<<"performCompetitorGapAnalysis", "callModel", "validateAndFix",
                 "generateAndValidateReferences", "injectInternalLinks",
                 "generateReferencesHtml", "validateContentQuality">>)
    /\ AtMostOnce
    /\ sota.outcome = "result" =>
          /\ Pos("validateContentQuality") # 0
          /\ \A i \in 1..Len(sota.ops) :
                i > Pos("validateContentQuality") => sota.ops[i] = "generateQualityReport"

C10_Witness ==
    /\ sota.outcome = "result"
    /\ Pos("callModel") < Pos("generateAndValidateReferences")
    /\ Pos("validateAndFix") < Pos("injectInternalLinks")
    /\ sota.content.body = "fixed"

----------------------------------------------------------------------------
(* Properties of the Reference Curator *)

\* the flattened per-section lists generateReferencesHtml starts from
AllRefs == Flatten(result.dynamicReferences)

\* the places of the flattened list holding the first occurrence of a url
FirstOccurrences(all) ==
    {i \in 1..Len(all) : \A j \in 1..(i - 1) : all[j].url # all[i].url}

\* the k-th first occurrence, in flattened order
NthFirst(all, k) ==
    CHOOSE i \in FirstOccurrences(all) :
        Cardinality({j \in FirstOccurrences(all) : j < i}) = k - 1

Min(a, b) == IF a < b THEN a ELSE b

\* C11: the rendered reference list has no two entries with the same url,
\* its k-th entry is the k-th first occurrence of a url in the flattened
\* list, and it has as many entries as there are distinct urls, up to 10:
\* the cap counts deduplicated entries.
C11_RenderedUniqueAndCapped ==
    ret.kind = "html" =>
        /\ \A i, j \in 1..Len(ret.references) :
              i # j => ret.references[i].url # ret.references[j].url
        /\ Len(ret.references) = Min(10, Cardinality(FirstOccurrences(AllRefs)))
        /\ \A k \in 1..Len(ret.references) : ret.references[k] = AllRefs[NthFirst(AllRefs, k)]

C11_Witness ==
    /\ ret.kind = "html"
    /\ Cardinality(FirstOccurrences(AllRefs)) > 10
    /\ \E i \in 1..10 : i \notin FirstOccurrences(AllRefs)
    /\ Len(ret.references) = 10

\* C12: the references of the returned record hold no url twice and are at
\* most 10.
C12_RecordReferencesUnique ==
    ret.kind = "record" =>
        /\ \A i, j \in 1..Len(ret.references) :
              i # j => ret.references[i].url # ret.references[j].url
        /\ Len(ret.references) <= 10

\* the section queries issued so far, in order
SectionRequests == SelectSeq(requests, LAMBDA r : r.purpose = "section")

OkSections == {k \in 1..Len(SectionRequests) : SectionRequests[k].outcome = "ok"}

FailedSections == {k \in 1..Len(SectionRequests) : SectionRequests[k].outcome = "failed"}

\* fetchDynamicReferences has returned its map
CurationReturned == pc \in {"a_return", "f_done"}

\* the step in which the query in flight fails
SectionFailureStep ==
    /\ pc = "r_wait"
    /\ requests'[Len(requests')].outcome = "failed"

\* C13: a failed section query is absorbed. The step that handles the
\* failure leaves the map as it was and moves to the next section; entries
\* of the map come from successful queries only; the sections are queried
\* one after the other whatever failed before, and when the function has
\* returned every section has been queried; the run never leaves the
\* function through an error.
C13_SectionFailureAbsorbed ==
    /\ [](/\ pc \in {"f_call", "r_loop", "r_wait", "r_delay", "a_return", "f_done"}
          /\ \A k \in 1..Len(SectionRequests) : SectionRequests[k].idx = k
          /\ Len(work.map) <= Cardinality(OkSections)
          /\ \A e \in 1..Len(work.map) :
                \E k \in OkSections : work.sections[k] = work.map[e].section
          /\ CurationReturned =>
                /\ Len(SectionRequests) = Len(work.sections)
                /\ FailedSections \cup OkSections = 1..Len(work.sections)
                /\ result.dynamicReferences = work.map)
    /\ [][SectionFailureStep =>
             /\ work'.map = work.map
             /\ work'.i = work.i + 1
             /\ pc' = "r_loop"]_vars

C13_Witness ==
    /\ pc = "f_done"
    /\ Len(work.sections) = 6
    /\ FailedSections = {2, 4}
    /\ Len(work.map) = 4
    /\ work.map[1].section = "s1" /\ work.map[1].refs # <<>>
    /\ work.map[2].section = "s3"

\* the references held by the map, by entry and place
StoredRefs == {<<e, k>> : e \in 1..Len(work.map), k \in 1..3}

Stored(x) == work.map[x[1]].refs[x[2]]

IsStored(x) == x[2] <= Len(work.map[x[1]].refs)

AuthorityPriority == <<"government", "academic", "industry", "expert">>

AuthorityPair ==
    [government |-> <<"Government", 95>>, academic |-> <<"Academic", 90>>,
     industry |-> <<"Industry", 85>>, expert |-> <<"News", 75>>]

\* the pair of the first list of the priority order the host matches
ExpectedPair(host) ==
    LET matched == {i \in 1..Len(AuthorityPriority) : AuthorityPriority[i] \in HostMatches[host]}
    IN  IF matched = {} THEN <<"Expert", 50>>
        ELSE AuthorityPair[AuthorityPriority[CHOOSE i \in matched : \A j \in matched : i <= j]]

\* C14: every stored reference carries the category and the authority score
\* of the first list, in the order government, academic, industry, expert,
\* that its domain matches, and Expert/50 when it matches none.
C14_AuthorityByPriority ==
    \A x \in StoredRefs :
        IsStored(x) => <<Stored(x).category, Stored(x).authorityScore>> = ExpectedPair(Stored(x).domain)

C14_Witness ==
    /\ pc = "f_done"
    /\ \E x \in StoredRefs :
          /\ IsStored(x)
          /\ Stored(x).domain = "pubmed.ncbi.nlm.nih.gov"
          /\ Stored(x).category = "Government"
    /\ \A c \in {"Academic", "Industry", "News", "Expert"} :
          \E x \in StoredRefs : IsStored(x) /\ Stored(x).category = c

\* a section query has just been answered and its list stored (line 1040)
JustStored == pc = "r_delay"

\* the results of that answer the loop of line 1002 examines, results.slice(0, 8)
Examined == Slice(requests[Len(requests)].got, 8)

\* the list stored for the section of that query
StoredNow ==
    work.map[CHOOSE e \in 1..Len(work.map) : work.map[e].section = work.sections[work.i]].refs

\* the domain is on the block-list, or is the publishing site's own domain
Blocked(host) == "blocked" \in HostMatches[host]

IsOwnDomain(host) == ctx.wpUrl /\ host = OwnHost

\* the place in the examined results of the result a stored reference was made of
PlaceOf(ref) == CHOOSE n \in 1..Len(Examined) : Examined[n].link = ref.url

\* a stored reference ranks before the n-th examined result: its score is
\* higher, or equal and it came earlier
RanksBefore(ref, n) ==
    \/ ref.authorityScore > ExpectedPair(Examined[n].host)[2]
    \/ /\ ref.authorityScore = ExpectedPair(Examined[n].host)[2]
       /\ PlaceOf(ref) < n

\* the n-th examined result is a candidate of its section: it is stored, or
\* three stored references rank before it
KeptAsCandidate(n) ==
    \/ \E k \in 1..Len(StoredNow) : StoredNow[k].url = Examined[n].link
    \/ /\ Len(StoredNow) = 3
       /\ \A k \in 1..3 : RanksBefore(StoredNow[k], n)

\* C15: an examined result with a well-formed link is dropped exactly when
\* its domain is on the block-list or is the publishing site's own domain:
\* no stored reference has such a domain, and every other examined result
\* is a candidate of its section.
C15_DroppedExactlyWhenBlockedOrOwn ==
    JustStored =>
        /\ \A k \in 1..Len(StoredNow) :
              /\ ~Blocked(StoredNow[k].domain)
              /\ ~IsOwnDomain(StoredNow[k].domain)
        /\ \A n \in 1..Len(Examined) :
              (/\ Examined[n].host \in Hosts
               /\ ~Blocked(Examined[n].host)
               /\ ~IsOwnDomain(Examined[n].host)) => KeptAsCandidate(n)

\* the examined results the loop of lines 1002-1037 makes references of
Candidates == {n \in 1..Len(Examined) : ~Dropped(Examined[n], ctx.wpUrl)}

\* C16: the list stored for a section is in descending order of authority
\* score, references of equal score are in the order of the search results,
\* it holds at most 3 references, each made of a result of that search, and
\* they are the first 3 of that ordering: a candidate left out is ranked
\* behind all three.
C16_SortedStableTop3 ==
    JustStored =>
        /\ Len(StoredNow) = Min(3, Cardinality(Candidates))
        /\ \A k \in 1..Len(StoredNow) :
              \E n \in Candidates :
                  /\ Examined[n].link = StoredNow[k].url
                  /\ Examined[n].host = StoredNow[k].domain
        /\ \A k, l \in 1..Len(StoredNow) :
              k < l =>
                  /\ StoredNow[k].authorityScore >= StoredNow[l].authorityScore
                  /\ StoredNow[k].authorityScore = StoredNow[l].authorityScore =>
                        PlaceOf(StoredNow[k]) < PlaceOf(StoredNow[l])
        /\ \A n \in Candidates : KeptAsCandidate(n)

C16_Witness ==
    /\ JustStored
    /\ Cardinality(Candidates) > 3
    /\ Len(StoredNow) = 3
    /\ StoredNow[1].authorityScore > StoredNow[2].authorityScore
    /\ StoredNow[2].authorityScore = StoredNow[3].authorityScore
    /\ PlaceOf(StoredNow[1]) > PlaceOf(StoredNow[3])
    /\ \E n \in Candidates :
          /\ n > PlaceOf(StoredNow[3])
          /\ ExpectedPair(Examined[n].host)[2] = StoredNow[3].authorityScore

\* the input section whose query filled the e-th entry of the map: the last
\* successful query for that entry's topic
Producer(e) ==
    CHOOSE k \in OkSections :
        /\ work.sections[k] = work.map[e].section
        /\ \A k2 \in OkSections : work.sections[k2] = work.map[e].section => k2 <= k

\* C17: the sections are queried in input order, and in the flattened list
\* (the entries of the map one after the other) the references found for an
\* earlier input section stand before those found for a later one.
C17_FlattenedInSectionOrder ==
    /\ \A k \in 1..Len(SectionRequests) :
          /\ SectionRequests[k].idx = k
          /\ work.sections[k] = work.topics[k]
    /\ \A a, b \in 1..Len(work.map) : a < b => Producer(a) < Producer(b)

\* C18: a section query is issued only after the delay has been run behind
\* every earlier section query, whether that query succeeded or failed.
C18_DelayBetweenQueries ==
    work.delays >= Len(SectionRequests) - 1

\* C19: at most 6 section queries are issued, the k-th of them for the k-th
\* topic supplied, and a finished run with a search key has queried
\* exactly the first 6 topics (all of them when fewer are supplied).
C19_AtMostSixQueries ==
    /\ Len(SectionRequests) <= 6
    /\ \A k \in 1..Len(SectionRequests) :
          /\ SectionRequests[k].idx = k
          /\ work.sections[k] = work.topics[k]
    /\ (CurationReturned /\ ctx.serperApiKey) =>
          Len(SectionRequests) = Min(6, Len(work.topics))

C19_Witness ==
    /\ pc = "f_done"
    /\ Len(work.topics) > 6
    /\ Len(SectionRequests) = 6
    /\ SectionRequests[6].outcome = "ok"
    /\ work.sections[6] = work.topics[6]

----------------------------------------------------------------------------
(* Properties of the search adapter in a pipeline run *)

SearchRequests == {i \in 1..Len(requests) : requests[i].kind = "search"}

Logged(event) == \E i \in 1..Len(logs) : logs[i] = event

\* C20: in a run without a search API key no search request is ever
\* issued, the competitor blocks, the questions and the reference map are
\* empty, and the key is no cause of an error: the analysis logs an error
\* and the run returns null only when a provider call failed, no provider
\* client exists or a parsed value had the wrong type.
C20_NoKeyDegradesToEmpty ==
    ~ctx.serperApiKey =>
        /\ SearchRequests = {}
        /\ work.competitors = 0
        /\ result.paaQuestions = <<>>
        /\ work.map = <<>> /\ result.dynamicReferences = <<>>
        /\ pc \notin {"a_fetch_wait", "r_loop", "r_wait", "r_delay"}
        /\ (Logged("Analysis error") \/ ret.kind = "null") =>
              (NoClientAtAll \/ FailedCall(AnalyticPurposes \cup {"writer"}) \/ TypeErrorPending)

C20_Witness ==
    /\ ~ctx.serperApiKey
    /\ pc = "done"
    /\ ret.kind = "record"
    /\ Entered("ReferenceCuration")
    /\ Len(ret.outline) = 2
    /\ ret.references = <<>>
    /\ ret.content.blocks = 0

----------------------------------------------------------------------------
(* Properties of the gap list *)

\* the gaps the model returned, once its answer has been parsed into a list
GapsReturned ==
    LET answered == {i \in ProviderRequests :
                        /\ requests[i].purpose = "gap" /\ requests[i].outcome = "ok"
                        /\ requests[i].body.k = "object" /\ requests[i].body.uk.t = "array"}
    IN  IF answered = {} \/ pc = "a_gap" THEN <<>>
        ELSE requests[CHOOSE i \in answered : TRUE].body.uk.items

\* a is the beginning of b
IsPrefix(a, b) == Len(a) <= Len(b) /\ \A i \in 1..Len(a) : a[i] = b[i]

\* C21: the stored gap list is the list the model returned, in its order,
\* and the content outline, the section topics, the key takeaways and the
\* outline of the record each list the gaps from the first one on in that
\* same order, none of them re-sorted.
C21_GapOrderPreserved ==
    /\ result.serpGaps.t = "array" => result.serpGaps.items = GapsReturned
    /\ IsPrefix(work.contentOutline, GapsReturned)
    /\ IsPrefix(work.topics, GapsReturned)
    /\ IsPrefix(work.sections, work.topics)
    /\ IsPrefix(ret.keyTakeaways, GapsReturned)
    /\ Entered("SignalGeneration") => Len(work.contentOutline) = Min(5, Len(GapsReturned))
    /\ ret.kind = "record" =>
          /\ ret.outline = GapsReturned
          /\ Len(ret.keyTakeaways) = Min(7, Len(GapsReturned))

C21_Witness ==
    /\ pc = "done"
    /\ ret.kind = "record"
    /\ ret.outline = <<"g2", "g1">>
    /\ work.sections = <<"g2", "g1">>
    /\ work.contentOutline = <<"g2", "g1">>

----------------------------------------------------------------------------
(* Properties of the freshness years *)

\* C22: for a date in year Y the target year is Y from January to November
\* and Y + 1 in December, and the previous year is the target year minus
\* one.
C22_TargetYearByMonth ==
    ret.kind = "years" =>
        /\ ctx.now.month \in 1..11 => ret.target = ctx.now.year
        /\ ctx.now.month = 12 => ret.target = ctx.now.year + 1
        /\ ret.previous = ret.target - 1

C22_Witness ==
    /\ ret.kind = "years"
    /\ ctx.now.month = 12
    /\ ret.target = ctx.now.year + 1
    /\ ret.previous = ctx.now.year

\* C23: in every month every query and every freshness-tagged field
\* carries the computed year it names: the target year, or the previous
\* year where the year before is meant.
C23_FieldsUseComputedYears ==
    ret.kind = "years" =>
        \A i \in 1..Len(ret.stamps) :
            ret.stamps[i].year = IF ret.stamps[i].names = "target" THEN ret.target
                                 ELSE ret.previous

----------------------------------------------------------------------------
(* Properties of the slug *)

\* the letters and digits of the keyword, lower-cased, with their places
KeptPlaces == {i \in 1..Len(ctx.keyword) : ctx.keyword[i] \in {"a", "B", "7"}}

Lowered(c) == IF c = "B" THEN "b" ELSE c

\* the place in the slug of the letter or digit at place i of the keyword:
\* one for each letter or digit before it and one for each run of other
\* characters between two of them
SlugPlace(i) ==
    Cardinality({j \in KeptPlaces : j <= i}) +
    Cardinality({j \in KeptPlaces : j < i /\ j + 1 \notin KeptPlaces /\ \E k \in KeptPlaces : k > j /\ k <= i})

\* C24: the slug is the keyword lower-cased, each maximal run of characters
\* outside [a-z0-9] replaced by one hyphen, without a hyphen at either end:
\* every letter and digit of the keyword stands in it, in order, two of
\* them are separated by exactly one hyphen when a run stood between them
\* and by nothing otherwise, and it holds nothing else. So it consists of
\* [a-z0-9-], has no hyphen first or last and no two hyphens in a row.
C24_SlugOfKeyword ==
    ret.kind = "slug" =>
        /\ \A i \in KeptPlaces :
              /\ SlugPlace(i) \in 1..Len(ret.slug)
              /\ ret.slug[SlugPlace(i)] = Lowered(ctx.keyword[i])
        /\ \A q \in 1..Len(ret.slug) :
              \/ \E i \in KeptPlaces : SlugPlace(i) = q
              \/ /\ ret.slug[q] = "-"
                 /\ \E i, j \in KeptPlaces : SlugPlace(i) = q - 1 /\ SlugPlace(j) = q + 1
        /\ \A q \in 1..Len(ret.slug) : ret.slug[q] \in {"a", "b", "7", "-"}
        /\ ret.slug # <<>> => (ret.slug[1] # "-" /\ ret.slug[Len(ret.slug)] # "-")
        /\ \A q \in 1..(Len(ret.slug) - 1) : ~(ret.slug[q] = "-" /\ ret.slug[q + 1] = "-")

C24_Witness ==
    /\ ret.kind = "slug"
    /\ ctx.keyword = <<"B", " ", "7", "!">>
    /\ ret.slug = <<"b", "-", "7">>

----------------------------------------------------------------------------
(* Properties of the internal link injector *)

InInjector == pc \in {"l_call", "l_loop", "l_done"}

\* the anchor text occurs at place p of the text, letters compared without
\* their case
OccursAt(anchor, text, p) ==
    /\ p + Len(anchor) - 1 <= Len(text)
    /\ \A k \in 1..Len(anchor) :
          (IF text[p + k - 1] = "X" THEN "x" ELSE text[p + k - 1])
              = (IF anchor[k] = "X" THEN "x" ELSE anchor[k])

Occurs(anchor, text) == \E p \in 1..Len(text) : OccursAt(anchor, text, p)

\* C25: one run introduces at most one hyperlink for each distinct anchor
\* text, whatever the list of suggestions, and returns the body as it was
\* when no anchor text occurs in it.
C25_OneLinkPerAnchorText ==
    InInjector =>
        /\ \A a \in AnchorTexts :
              Cardinality({k \in 1..Len(work.linked) : work.linked[k] = a}) <= 1
        /\ (ret.kind = "linked"
               /\ \A k \in 1..Len(work.links) : ~Occurs(work.links[k].anchorText, work.content))
              => ret.content = work.content

\* the characters wrapped in a hyperlink to the slug
LinkTo(targetSlug, chars) ==
    <<"<", "a", " ", "h", "r", "e", "f", "=", "\"">> \o targetSlug \o <<"\"", ">">>
        \o chars \o <<"<", "/", "a", ">">>

\* the text with the characters from place p to place q wrapped
Wrapped(text, p, q, targetSlug) ==
    SubSeq(text, 1, p - 1) \o LinkTo(targetSlug, SubSeq(text, p, q))
        \o SubSeq(text, q + 1, Len(text))

\* the step of the injector for the suggestion at place work.i
SuggestionStep == pc = "l_loop" /\ work'.i # work.i

----------------------------------------------------------------------------
(* Properties of the auto-fixer and the quality report in                   *)
(* generateUltraSOTAContent                                                 *)

\* the number of calls of a collaborator so far
Calls(op) == Cardinality({i \in 1..Len(sota.ops) : sota.ops[i] = op})

\* the call at place i of the run
CallAt(op, i) == i \in 1..Len(sota.ops) /\ sota.ops[i] = op

\* the text the steps after the auto-fixer have to work on
FixedOrRaw == IF sota.fixed = "" THEN sota.raw ELSE sota.fixed

\* C28: validateAndFix is applied exactly once in a run that returns, after
\* the model call and before the validation, and never again after the
\* validation, whatever the score; the summary for the references, the link
\* injection, the validated and the returned content are all made from its
\* fixed output when there is one and from the raw model text otherwise.
C28_FixedOnceThenUsed ==
    /\ Calls("validateAndFix") <= 1
    /\ \A i, j \in 1..Len(sota.ops) :
          (CallAt("validateContentQuality", i) /\ CallAt("validateAndFix", j)) => j < i
    /\ \A i, j \in 1..Len(sota.ops) :
          (CallAt("callModel", i) /\ CallAt("validateAndFix", j)) => i < j
    /\ sota.fixed # "none" =>
          /\ Calls("validateAndFix") = 1
          /\ sota.base = FixedOrRaw
          /\ sota.summaryOf \in {"none", FixedOrRaw}
          /\ sota.linkedOn.body \in {"none", FixedOrRaw}
          /\ sota.content.body \in {"none", FixedOrRaw}
          /\ sota.report.on.body \in {"none", FixedOrRaw}
    /\ sota.outcome = "result" =>
          /\ sota.fixed # "none"
          /\ sota.summaryOf = FixedOrRaw
          /\ sota.linkedOn.body = FixedOrRaw
          /\ sota.report.on.body = FixedOrRaw
          /\ sota.result.content.body = FixedOrRaw

C28_Witness ==
    /\ sota.outcome = "result"
    /\ sota.raw = "raw"
    /\ sota.fixed = "fixed"
    /\ sota.result.content.body = "fixed"
    /\ sota.result.qualityReport.score = 40
    /\ Calls("validateAndFix") = 1

\* the step of the final validation that ends in a result
ValidationPasses == sota.pc = "s8" /\ sota'.outcome = "result"

\* C29: the content returned is the content built before the validation,
\* whatever the report says; the report is only attached to the result.
C29_ReportNeverGatesContent ==
    /\ [](sota.outcome = "result" =>
            /\ sota.result.content = sota.content
            /\ sota.result.qualityReport = sota.report
            /\ sota.result.qualityReport.on = sota.content)
    /\ [][ValidationPasses =>
            /\ sota'.result.content = sota.content
            /\ sota'.content = sota.content]_vars

C29_Witness ==
    /\ sota.outcome = "result"
    /\ sota.result.qualityReport.score = 40
    /\ sota.result.content = [body |-> "raw", links |-> 1, refs |-> 1, images |-> 0]

----------------------------------------------------------------------------
(* Properties of executeUltraSOTA *)

Returned == ret.kind \in {"generated", "refreshed"}

\* the step that calls the link injector
InjectorStep == Calls("injectInternalLinks")' > Calls("injectInternalLinks")

\* C27: in a run of executeUltraSOTA, in either mode, the link injector is
\* called at most once, exactly once when the run returns a content, and on
\* a text no pass of the injector has gone over; the content returned has
\* had one pass.
C27_InjectorAppliedOnce ==
    /\ [](/\ Calls("injectInternalLinks") <= 1
          /\ sota.linkedOn.links = 0
          /\ sota.content.links <= 1
          /\ sota.contentWithImages.links <= 1
          /\ Returned =>
                /\ Calls("injectInternalLinks") = 1
                /\ ret.content.links = 1
                /\ ret.content.body = sota.linkedOn.body)
    /\ [][InjectorStep =>
            /\ Calls("injectInternalLinks") = 0
            /\ sota.pc = "s7"
            /\ sota'.pc = "s8" => sota'.linkedOn = [NoBody EXCEPT !.body = sota.base]]_vars

C27_Witness ==
    /\ ret.kind = "refreshed"
    /\ Calls("injectInternalLinks") = 1
    /\ ret.content = [body |-> "fixed", links |-> 1, refs |-> 1, images |-> 1]

\* the last call of the run
LastCall == sota.ops[Len(sota.ops)]

\* C30: the report returned was made by a validation of exactly the content
\* returned with it: in generate mode the content with links and
\* references, in refresh mode the content with the images put back, by a
\* second validation that follows the image re-injection.
C30_ReportOnReturnedContent ==
    /\ Returned => ret.qualityReport.on = ret.content
    /\ ret.kind = "generated" =>
          /\ ret.content = [body |-> sota.base, links |-> 1, refs |-> 1, images |-> 0]
          /\ Calls("validateContentQuality") = 1
    /\ ret.kind = "refreshed" =>
          /\ ret.content = [body |-> sota.base, links |-> 1, refs |-> 1, images |-> 1]
          /\ Calls("validateContentQuality") = 2
          /\ LastCall = "validateContentQuality"
          /\ sota.ops[Len(sota.ops) - 1] = "injectImagesIntoContent"
          /\ ret.qualityReport.on # sota.result.qualityReport.on

C30_Witness ==
    /\ ret.kind = "refreshed"
    /\ sota.result.qualityReport.score = 90
    /\ ret.qualityReport.score = 40
    /\ ret.qualityReport.on.images = 1

----------------------------------------------------------------------------
(* Properties of the progress events and of failures in the ULTRA SOTA      *)
(* orchestration layer                                                      *)

\* the events delivered with details
HasDetails(e) == e.details

StageEvents == SelectSeq(sota.events, HasDetails)

\* the stage of generateUltraSOTAContent that makes a call
StageOf(op) ==
    CASE op = "enhanceSemanticKeywords" -> 1
      [] op = "performCompetitorGapAnalysis" -> 2
      [] op \in {"buildGodModePrompt", "buildUltraSOTAPrompt", "callModel"} -> 4
      [] op = "validateAndFix" -> 5
      [] op = "generateAndValidateReferences" -> 6
      [] op \in {"generateOptimalInternalLinks", "injectInternalLinks",
                 "generateReferencesHtml"} -> 7
      [] op \in {"validateContentQuality", "generateQualityReport"} -> 8

\* C31: with a progress callback, a generate run delivers one event with
\* details per stage entered: the k-th has step k and total 8, and is
\* delivered when every call made belongs to an earlier stage and before
\* any call of stage k; a run that fails in stage k has delivered exactly
\* the events of steps 1..k, a run that returns all eight.
C31_StageEventsInOrder ==
    /\ ~sota.hasProgress => sota.events = <<>>
    /\ sota.hasProgress =>
          /\ \A k \in 1..Len(StageEvents) :
                /\ StageEvents[k].step = k
                /\ StageEvents[k].total = 8
                /\ \A j \in 1..Len(sota.ops) :
                      IF j <= StageEvents[k].calls THEN StageOf(sota.ops[j]) < k
                      ELSE StageOf(sota.ops[j]) >= k
          /\ Len(StageEvents) <= 8
          /\ sota.pc = "s_catch" \/ sota.outcome = "thrown" =>
                Len(StageEvents) = StageOf(sota.ops[Len(sota.ops)])
          /\ sota.outcome = "result" => Len(StageEvents) = 8

C31_Witness ==
    /\ sota.hasProgress
    /\ sota.outcome = "thrown"
    /\ sota.ops[Len(sota.ops)] = "validateAndFix"
    /\ Len(StageEvents) = 5
    /\ StageEvents[5] = [details |-> TRUE, step |-> 5, total |-> 8, calls |-> 4]

----------------------------------------------------------------------------
(* Termination of executeGodModeUltraPipeline *)

\* an external call is in flight: a provider request, a search request, the
\* delay between two section queries
InFlight ==
    \/ call.st = "awaiting"
    \/ pc \in {"a_fetch_wait", "r_wait", "r_delay"}

LastStage == stages[Len(stages)]

Terminated ==
    /\ pc = "done"
    /\ \/ ret.kind = "record" /\ LastStage = "Complete"
       \/ ret.kind = "null" /\ LastStage = "Errored"

\* the call in flight returns or fails
Settles ==
    /\ call.st = "awaiting" => call'.st \in {"returned", "thrown"}
    /\ pc \in {"a_fetch_wait", "r_wait"} =>
          /\ requests'[Len(requests)].outcome \in {"ok", "failed"}
          /\ pc' \notin {"a_fetch_wait", "r_wait"}
    /\ pc = "r_delay" => pc' = "r_loop"

\* C32: when every external call in flight eventually returns or fails, the
\* run ends in Complete with a record or in Errored with null; and while a
\* call is in flight the only step the run can take is the return or the
\* failure of that call, which leaves the stage as it is: no timeout and no
\* cancellation moves a run whose call never returns.
C32_TerminatesUnlessHung ==
    /\ <>Terminated
    /\ [](pc = "done" => Terminated)
    /\ [][InFlight => (Settles /\ stages' = stages)]_vars

C32_Witness ==
    /\ Terminated
    /\ ret.kind = "record"
    /\ \E i, j \in 1..Len(requests) :
          /\ requests[i].kind = "search" /\ requests[i].outcome = "failed"
          /\ requests[j].kind = "provider" /\ requests[j].outcome = "ok"

----------------------------------------------------------------------------
(* Properties of the content of the record *)

\* C33: the content of a returned record holds no banned phrase, whatever
\* text the model returned.
C33_NoBannedPhraseInRecord ==
    ret.kind = "record" => ~ret.content.banned

\* generateGodModeUltraContent has returned
ContentReturned == pc \in {"p_build", "done"} /\ Entered("PostProcessing")

\* C34: with a non-empty curated list and a prose without a references
\* section, the content returned holds the rendered references block exactly
\* once, with or without a conclusion heading or a closing paragraph tag;
\* a prose that has a references section gets none.
C34_ReferencesBlockExactlyOnce ==
    ContentReturned =>
        /\ (UniqueRefs(Flatten(result.dynamicReferences)) # <<>> /\ ~work.content.marker)
              => work.content.blocks = 1
        /\ work.content.marker => work.content.blocks = 0

----------------------------------------------------------------------------
(* The reference map and the competitor blocks *)

\* the step that stores the list of the section whose query returned
SectionStoreStep == pc = "r_wait" /\ pc' = "r_delay"

\* C35: the step that stores a section's list adds an entry holding that
\* section's own top-3 list and leaves every entry stored before as it was,
\* so the map holds one entry for each section whose query succeeded, also
\* when two section topics are equal strings.
C35_EarlierSectionsKept ==
    /\ [](Len(work.map) = Cardinality(OkSections))
    /\ [][SectionStoreStep =>
            /\ Len(work'.map) = Len(work.map) + 1
            /\ \A e \in 1..Len(work.map) : work'.map[e] = work.map[e]
            /\ work'.map[Len(work'.map)] =
                  [section |-> work.sections[work.i],
                   refs |-> CurateSection(requests'[Len(requests')].got, ctx.wpUrl)]]_vars

\* the response read by the call, when one arrived
Response == requests[1].body

\* the response is an object whose lists, when present, are arrays without
\* null entries
WellFormed ==
    /\ Len(requests) = 1
    /\ requests[1].outcome = "ok"
    /\ Response.k = "object"
    /\ \A f \in {Response.organic, Response.peopleAlsoAsk} :
          \/ f.t = "undefined"
          \/ f.t = "array" /\ \A i \in 1..Len(f.items) : f.items[i] # "null"

\* the entries of a list of the response, none when the field is absent
Listed(f) == IF f.t = "array" THEN f.items ELSE <<>>

\* the result holds the first three organic results in rank order, an empty
\* block for a missing rank, and the first eight questions at most, in order
FirstThreeAndQuestions ==
    LET organic == Listed(Response.organic)
        paa == Listed(Response.peopleAlsoAsk)
        blocks == <<ret.competitor1, ret.competitor2, ret.competitor3>>
    IN  /\ \A i \in 1..3 :
              blocks[i] = IF i <= Len(organic) THEN [of |-> organic[i]] ELSE [of |-> "none"]
        /\ Len(ret.paaQuestions) = Min(8, Len(paa))
        /\ \A i \in 1..Len(ret.paaQuestions) : ret.paaQuestions[i] = paa[i]

NothingFound ==
    /\ ret.competitor1 = [of |-> "none"]
    /\ ret.competitor2 = [of |-> "none"]
    /\ ret.competitor3 = [of |-> "none"]
    /\ ret.paaQuestions = <<>>

\* C36: fetchCompetitorContent always returns a value. Without a key, when
\* the request fails and when the response cannot be read it returns three
\* empty blocks and no questions; from a well-formed response it returns
\* the first three organic results in rank order and at most eight
\* questions in response order.
C36_CompetitorsOrEmpty ==
    pc = "m_done" =>
        /\ ret.kind = "competitors"
        /\ requests = <<>> => NothingFound
        /\ requests # <<>> =>
              /\ requests[1].outcome \in {"ok", "failed"}
              /\ requests[1].outcome = "failed" => NothingFound
              /\ (requests[1].outcome = "ok" /\ Response.k # "object") => NothingFound
              /\ WellFormed => FirstThreeAndQuestions
              /\ requests[1].outcome = "ok" => (NothingFound \/ FirstThreeAndQuestions)

C36_Witness ==
    /\ pc = "m_done"
    /\ WellFormed
    /\ Response.organic = [t |-> "array", items |-> <<"o2", "o1">>]
    /\ Len(Listed(Response.peopleAlsoAsk)) = 9
    /\ ret.competitor1 = [of |-> "o2"]
    /\ ret.competitor3 = [of |-> "none"]
    /\ Len(ret.paaQuestions) = 8

----------------------------------------------------------------------------
(* Failures, progress and dispatch in executeUltraSOTA *)

\* a step of the run has thrown
Failed == sota.pc \in {"s_catch", "r_catch"} \/ sota.outcome = "thrown"

\* the calls of a complete run of generateUltraSOTAContent
GenerateCalls ==
    <<"enhanceSemanticKeywords", "performCompetitorGapAnalysis",
      IF sota.useGodMode THEN "buildGodModePrompt" ELSE "buildUltraSOTAPrompt",
      "callModel", "validateAndFix", "generateAndValidateReferences",
      "generateOptimalInternalLinks", "injectInternalLinks", "generateReferencesHtml",
      "validateContentQuality", "generateQualityReport">>

\* C37: once a step has thrown, no further call is made and no further
\* event is delivered, and the run ends by throwing to the caller; a result
\* is returned only by a run all of whose steps were executed.
C37_ErrorRethrownNoPartialResult ==
    /\ [](/\ pc = "x_done" => ret.kind \in {"generated", "refreshed", "thrown"}
          /\ (pc = "x_done" /\ Failed) => ret.kind = "thrown"
          /\ ret.kind = "thrown" => Failed
          /\ ret.kind = "generated" => (~Failed /\ sota.ops = GenerateCalls)
          /\ ret.kind = "refreshed" =>
                /\ ~Failed
                /\ sota.ops = <<"extractExistingImages">> \o GenerateCalls
                                  \o <<"injectImagesIntoContent", "validateContentQuality">>)
    /\ [][Failed =>
            /\ Failed'
            /\ sota'.ops = sota.ops
            /\ sota'.events = sota.events
            /\ ret'.kind \in {"none", "thrown"}]_vars

C37_Witness ==
    /\ pc = "x_done"
    /\ ret.kind = "thrown"
    /\ sota.entry = "refresh"
    /\ sota.hasProgress
    /\ sota.ops[Len(sota.ops)] = "injectImagesIntoContent"
    /\ sota.events[Len(sota.events)].step = 5

\* the steps of the events of a complete refresh run: two of its own, the
\* eight of the inner generator, two of its own
RefreshSteps ==
    <<1, 2>> \o [k \in 1..8 |-> Min(5, 1 + k)] \o <<5, 6>>

\* C38: in a refresh run every event delivered carries details with total
\* 6 and a step from 1 to 6, the steps never decrease, the inner steps
\* 1..8 arrive as min(5, 1 + step), an inner message without details is
\* not delivered, and step 6 comes after the inner generator and the image
\* re-injection.
C38_RefreshEventsRemapped ==
    sota.entry = "refresh" =>
        /\ ~sota.hasProgress => sota.events = <<>>
        /\ Len(sota.events) <= Len(RefreshSteps)
        /\ \A i \in 1..Len(sota.events) :
              /\ sota.events[i].details
              /\ sota.events[i].total = 6
              /\ sota.events[i].step \in 1..6
              /\ sota.events[i].step = RefreshSteps[i]
              /\ i > 1 => sota.events[i - 1].step <= sota.events[i].step
              /\ sota.events[i].step = 6 =>
                    /\ \E j \in 1..sota.events[i].calls : sota.ops[j] = "generateQualityReport"
                    /\ sota.ops[sota.events[i].calls] = "injectImagesIntoContent"

C38_Witness ==
    /\ ret.kind = "refreshed"
    /\ sota.hasProgress
    /\ Len(sota.events) = 12
    /\ sota.events[3].step = 2
    /\ sota.events[10].step = 5
    /\ sota.events[12].step = 6

\* the call asks for a refresh and brings a content to refresh
RefreshAsked ==
    /\ ctx.config.mode = "refresh"
    /\ ctx.config.existingContent # "undefined"
    /\ ctx.config.existingContent # ""

\* C39: a call runs one pipeline: the refresh pipeline exactly when mode is
\* refresh and existingContent is not empty, the generate pipeline in every
\* other case; the generator runs once at most, the refresh steps run only
\* in the refresh pipeline, and the refresh pipeline runs the generator
\* with God Mode off, whatever the call says.
C39_OnePipelinePerCall ==
    pc # "x_call" =>
        /\ sota.entry = (IF RefreshAsked THEN "refresh" ELSE "generate")
        /\ Calls("enhanceSemanticKeywords") <= 1
        /\ Calls("callModel") <= 1
        /\ sota.entry = "generate" =>
              /\ Calls("extractExistingImages") = 0
              /\ Calls("injectImagesIntoContent") = 0
              /\ sota.useGodMode = (ctx.config.useGodMode = "true")
              /\ ret.kind # "refreshed"
        /\ sota.entry = "refresh" =>
              /\ ~sota.useGodMode
              /\ Calls("buildGodModePrompt") = 0
              /\ ret.kind # "generated"
              /\ Calls("enhanceSemanticKeywords") = 1 => sota.ops[1] = "extractExistingImages"

C39_Witness ==
    /\ ctx.config.mode = "refresh"
    /\ ctx.config.existingContent = ""
    /\ ctx.config.useGodMode = "true"
    /\ ret.kind = "generated"
    /\ Calls("buildGodModePrompt") = 1

----------------------------------------------------------------------------
(* The fallback recursion of callGodModeUltraAI *)

\* the step that recurses into a fallback provider
FallbackStep == call'.depth # call.depth

\* C40: the call recurses once at most, from the outermost activation only
\* and into a provider that has a client, and it ends; when the selected
\* provider has a client the call never recurses and its request goes to
\* that provider.
C40_FallbackDepthAtMostOne ==
    /\ [](/\ call.depth \in {0, 1}
          /\ call.depth = 1 =>
                /\ call.sel \in ctx.apiClients.has
                /\ ctx.selectedModel \notin ctx.apiClients.has
          /\ (ctx.apiClients.present /\ ctx.selectedModel \in ctx.apiClients.has) =>
                /\ call.depth = 0
                /\ call.st # "idle" => call.sel = ctx.selectedModel
                /\ \A i \in 1..Len(requests) : requests[i].to = ctx.selectedModel)
    /\ [][FallbackStep =>
            /\ call.depth = 0
            /\ call'.depth = 1
            /\ call'.sel \in ctx.apiClients.has]_vars
    /\ <>(pc = "c_done")

C40_Witness ==
    /\ pc = "c_done"
    /\ call.depth = 1
    /\ ctx.selectedModel = "unknown"
    /\ ctx.apiClients.has = {"openrouter", "groq"}
    /\ call.sel = "openrouter"
    /\ ret.kind = "text"
====
